---- MODULE Spec2Model ----
(***************************************************************************)
(* Dynamic host-address acquisition core of the CycloneTCP stack:         *)
(* the DHCPv4 client (dhcp_client.c), the DHCPv6 client (dhcpv6_client.c) *)
(* and the SLAAC engine (slaac.c), each bound to one network interface.   *)
(*                                                                         *)
(* Time is osGetSystemTime() in milliseconds.  One stack task runs tick,   *)
(* the receive callbacks and the link-change hook one at a time; a user    *)
(* thread runs start, stop and getState.  A user callback invoked by the   *)
(* stack task is a window in which the stack task is inside the operation  *)
(* but has released the engine mutex.                                      *)
(***************************************************************************)
EXTENDS Integers, Sequences, FiniteSets, TLC

(***************************************************************************)
(* Bounds of the model.                                                    *)
(***************************************************************************)
\* the clock stops at MaxTime ms
MaxTime == 2000
\* the clock advances ClockStep ms at a time
ClockStep == 1000
\* netGetRand() yields a transaction identifier in 0..MaxXid
MaxXid == 1

VARIABLES
    engine,          \* the engine initialised on the interface
    settings,        \* context->settings (copied at init, never written again)
    now,             \* osGetSystemTime()
    interface,       \* NetInterface: link state and IPv4/IPv6 configuration
    dhcp,            \* DhcpClientCtx
    dhcpv6,          \* Dhcpv6ClientCtx
    slaac,           \* SlaacContext
    mutex,           \* context->mutex: "free", "stack" or "user"
    spc,             \* position of the stack task
    ev,              \* what the last step did
    lastSentXid,     \* xid of the request most recently sent, -1 before the first
    stopReturned,    \* stop has returned and start has not been called since
    ticksSinceStop,  \* ticks completed since stop returned (counted up to 1)
    timeoutCount,    \* timeout callbacks in the current acquisition attempt
    advertised,      \* best Advertise accepted since DHCPv6 entered SOLICIT
    probes,          \* Neighbor Solicitations SLAAC sent for its addresses
    firstSent        \* time the first message of the DHCPv6 exchange was sent

vars == <<engine, settings, now, interface, dhcp, dhcpv6, slaac, mutex, spc, ev,
          lastSentXid, stopReturned, ticksSinceStop, timeoutCount, advertised, probes,
          firstSent>>

Min(a, b) == IF a < b THEN a ELSE b

(***************************************************************************)
(* OS port and random source.                                              *)
(***************************************************************************)
(***************************************************************************)
(* 32-bit words.  systime_t and the lease timers are uint32_t; a word is    *)
(* written as the signed integer with the same 32 bits, so 0xFFFFFFFF is    *)
(* -1 and every operator below wraps modulo 2^32 as the C operators do.     *)
(***************************************************************************)
MaxInt32 == 2147483647

MinInt32 == -MaxInt32 - 1

\* a + b modulo 2^32
Add32(a, b) ==
    IF a >= 0 /\ b > MaxInt32 - a THEN (a + MinInt32) + (b + MinInt32)
    ELSE IF a < 0 /\ b < MinInt32 - a THEN (a - MinInt32) + (b - MinInt32)
    ELSE a + b

\* a - b modulo 2^32
Sub32(a, b) == IF b = MinInt32 THEN Add32(a, MinInt32) ELSE Add32(a, -b)

\* a * k modulo 2^32 for a factor 0 <= k < 2^15: the word is multiplied as
\* its two 16-bit halves
Mul32(a, k) ==
    LET lo == a % 65536
        hi == (a \div 65536) % 65536
        x == (hi * k) % 65536
    IN  Add32(IF x >= 32768 THEN (x - 65536) * 65536 ELSE x * 65536, lo * k)

\* a < b and a <= b as unsigned words
ULess(a, b) == IF (a >= 0) = (b >= 0) THEN a < b ELSE a >= 0

ULeq(a, b) == a = b \/ ULess(a, b)

\* a / d as unsigned words, for d a power of two greater than 1
UDiv(a, d) ==
    IF a >= 0 THEN a \div d
    ELSE ((a - MinInt32) \div d) + ((MaxInt32 \div d) + 1)

\* timeCompare(t1, t2) is (int32_t) (t1 - t2)
timeCompare(t1, t2) == Sub32(t1, t2)

\* the owner of the mutex once who has acquired it (who waits until it is free)
osAcquireMutex(m, who) == who

\* a release that leaves the mutex with its owner
osReleaseMutex_held(m) == m

\* the mutex once its owner has released it
osReleaseMutex(m) == "free"

\* netGetRandRange(lo, hi): the two ends of the range
netGetRandRange(lo, hi) == {lo, hi}

netGetRand == 0..MaxXid

(***************************************************************************)
(* DHCPv4 client: constants.                                               *)
(***************************************************************************)
DHCP_STATE_INIT == 0
DHCP_STATE_SELECTING == 1
DHCP_STATE_REQUESTING == 2
DHCP_STATE_INIT_REBOOT == 3
DHCP_STATE_REBOOTING == 4
DHCP_STATE_BOUND == 5
DHCP_STATE_RENEWING == 6
DHCP_STATE_REBINDING == 7

DhcpStates == DHCP_STATE_INIT..DHCP_STATE_REBINDING

DHCP_CLIENT_INIT_DELAY == 2000
DHCP_CLIENT_DISCOVER_INIT_RT == 4000
DHCP_CLIENT_DISCOVER_MAX_RT == 64000
DHCP_CLIENT_REQUEST_MAX_RC == 4
DHCP_CLIENT_REQUEST_INIT_RT == 4000
DHCP_CLIENT_REQUEST_MAX_RT == 64000
DHCP_CLIENT_REQUEST_MIN_DELAY == 60000
DHCP_CLIENT_RAND_FACTOR == 1000

\* 0xFFFFFFFF as a 32-bit pattern
DHCP_INFINITE_TIME == -1

DHCP_OPCODE_BOOTREQUEST == 1
DHCP_OPCODE_BOOTREPLY == 2
DHCP_HARDWARE_TYPE_ETH == 1
MacAddrSize == 6
DHCP_MESSAGE_TYPE_DISCOVER == 1
DHCP_MESSAGE_TYPE_OFFER == 2
DHCP_MESSAGE_TYPE_REQUEST == 3
DHCP_MESSAGE_TYPE_ACK == 5
DHCP_MESSAGE_TYPE_NAK == 6

IPV4_UNSPECIFIED_ADDR == 0

(***************************************************************************)
(* Options.  An option of a received message is the sequence of its        *)
(* values: <<>> when the option is absent, <<v>> when it is present with   *)
(* the length the parser expects, longer when its length is wrong.         *)
(***************************************************************************)
NoOpt == <<>>

OptOk(o) == Len(o) = 1

(***************************************************************************)
(* The result of running a piece of an operation under the mutex:          *)
(* the context and interface it leaves, the datagrams it handed to the     *)
(* UDP/NDP layer, whether it went through ChangeState, whether the state   *)
(* handler ends in CheckTimeout, and the reply it accepted.                *)
(***************************************************************************)
Res(ctx, ifc, sent, changed, chk, acc) ==
    [ctx |-> ctx, ifc |-> ifc, sent |-> sent, changed |-> changed,
     chk |-> chk, acc |-> acc]

NoAcc == [type |-> "none", xid |-> -1]

\* udpAllocBuffer fails: the datagram is not sent and the error is dropped
Datagram(alloc, type, xid) ==
    IF alloc THEN {[type |-> type, xid |-> xid]} ELSE {}

(***************************************************************************)
(* DHCPv4 client: state machine.                                           *)
(***************************************************************************)
dhcpChangeState(ctx, newState, delay, time) ==
    [ctx EXCEPT !.timestamp = time,
                !.timeout = delay,
                !.retransmitCount = 0,
                !.state = newState]

dhcpStateInitTo(ctx, ifc, time, delay, newState) ==
    IF ctx.running /\ ifc.linkState
    THEN Res(dhcpChangeState([ctx EXCEPT !.configStartTime = time,
                                         !.timeoutEventDone = FALSE],
                             newState, delay, time),
             ifc, {}, TRUE, FALSE, NoAcc)
    ELSE Res(ctx, ifc, {}, FALSE, FALSE, NoAcc)

\* dhcpStateInit leaving INIT for a value outside the enumeration
dhcpStateInit_outside(ctx, ifc, time, delay) ==
    dhcpStateInitTo(ctx, ifc, time, delay, DHCP_STATE_REBINDING + 1)

dhcpStateInit(ctx, ifc, time, delay) ==
    dhcpStateInitTo(ctx, ifc, time, delay, DHCP_STATE_SELECTING)

dhcpStateInitReboot(ctx, ifc, time, delay) ==
    dhcpStateInitTo(ctx, ifc, time, delay, DHCP_STATE_REBOOTING)

\* dhcpStateSelecting retransmitting without doubling the timeout
dhcpStateSelecting_flat(ctx, ifc, time, xid, jitter, alloc) ==
    IF timeCompare(time, ctx.timestamp + ctx.timeout) >= 0
    THEN LET c1 == IF ctx.retransmitCount = 0
                   THEN [ctx EXCEPT !.transactionId = xid,
                                    !.retransmitTimeout = DHCP_CLIENT_DISCOVER_INIT_RT]
                   ELSE ctx
             c2 == [c1 EXCEPT !.timestamp = time,
                              !.timeout = c1.retransmitTimeout + jitter,
                              !.retransmitCount = @ + 1]
         IN  Res(c2, ifc, Datagram(alloc, "DISCOVER", c1.transactionId),
                 FALSE, TRUE, NoAcc)
    ELSE Res(ctx, ifc, {}, FALSE, TRUE, NoAcc)

dhcpStateSelecting(ctx, ifc, time, xid, jitter, alloc) ==
    IF timeCompare(time, ctx.timestamp + ctx.timeout) >= 0
    THEN LET c1 == IF ctx.retransmitCount = 0
                   THEN [ctx EXCEPT !.transactionId = xid,
                                    !.retransmitTimeout = DHCP_CLIENT_DISCOVER_INIT_RT]
                   ELSE [ctx EXCEPT !.retransmitTimeout =
                                        Min(2 * @, DHCP_CLIENT_DISCOVER_MAX_RT)]
             c2 == [c1 EXCEPT !.timestamp = time,
                              !.timeout = c1.retransmitTimeout + jitter,
                              !.retransmitCount = @ + 1]
         IN  Res(c2, ifc, Datagram(alloc, "DISCOVER", c1.transactionId),
                 FALSE, TRUE, NoAcc)
    ELSE Res(ctx, ifc, {}, FALSE, TRUE, NoAcc)

\* dhcpStateRequesting and dhcpStateRebooting are the same code
dhcpStateRequesting(ctx, ifc, time, xid, jitter, alloc) ==
    IF timeCompare(time, ctx.timestamp + ctx.timeout) >= 0
    THEN IF ctx.retransmitCount = 0
         THEN LET c1 == [ctx EXCEPT !.transactionId = xid,
                                    !.retransmitTimeout = DHCP_CLIENT_REQUEST_INIT_RT,
                                    !.timestamp = time,
                                    !.timeout = DHCP_CLIENT_REQUEST_INIT_RT + jitter,
                                    !.retransmitCount = @ + 1]
              IN  Res(c1, ifc, Datagram(alloc, "REQUEST", xid), FALSE, TRUE, NoAcc)
         ELSE IF ctx.retransmitCount < DHCP_CLIENT_REQUEST_MAX_RC
         THEN LET rt == Min(2 * ctx.retransmitTimeout, DHCP_CLIENT_REQUEST_MAX_RT)
                  c1 == [ctx EXCEPT !.retransmitTimeout = rt,
                                    !.timestamp = time,
                                    !.timeout = rt + jitter,
                                    !.retransmitCount = @ + 1]
              IN  Res(c1, ifc, Datagram(alloc, "REQUEST", ctx.transactionId),
                      FALSE, TRUE, NoAcc)
         ELSE Res(dhcpChangeState(ctx, DHCP_STATE_INIT, 0, time),
                  ifc, {}, TRUE, TRUE, NoAcc)
    ELSE Res(ctx, ifc, {}, FALSE, TRUE, NoAcc)

\* dhcpStateBound going straight to REBINDING
dhcpStateBound_rebinding(ctx, ifc, time) ==
    IF ctx.t1 # DHCP_INFINITE_TIME
       /\ timeCompare(time, Add32(ctx.leaseStartTime, Mul32(ctx.t1, 1000))) >= 0
    THEN Res(dhcpChangeState([ctx EXCEPT !.configStartTime = time],
                             DHCP_STATE_REBINDING, 0, time),
             ifc, {}, TRUE, FALSE, NoAcc)
    ELSE Res(ctx, ifc, {}, FALSE, FALSE, NoAcc)

dhcpStateBound(ctx, ifc, time) ==
    IF ctx.t1 # DHCP_INFINITE_TIME
       /\ timeCompare(time, Add32(ctx.leaseStartTime, Mul32(ctx.t1, 1000))) >= 0
    THEN Res(dhcpChangeState([ctx EXCEPT !.configStartTime = time],
                             DHCP_STATE_RENEWING, 0, time),
             ifc, {}, TRUE, FALSE, NoAcc)
    ELSE Res(ctx, ifc, {}, FALSE, FALSE, NoAcc)

\* the retransmission step shared by RENEWING (limit T2) and REBINDING (limit
\* the lease time): send a DHCPREQUEST and wait half of the remaining time
dhcpRenewRequest(ctx, ifc, time, xid, alloc, limit) ==
    LET c1 == IF ctx.retransmitCount = 0
              THEN [ctx EXCEPT !.transactionId = xid] ELSE ctx
        rem == Sub32(Add32(ctx.leaseStartTime, limit), time)
        c2 == [c1 EXCEPT !.timestamp = time,
                         !.timeout = IF ULess(2 * DHCP_CLIENT_REQUEST_MIN_DELAY, rem)
                                     THEN UDiv(rem, 2) ELSE rem,
                         !.retransmitCount = @ + 1]
    IN  Res(c2, ifc, Datagram(alloc, "REQUEST", c1.transactionId),
            FALSE, FALSE, NoAcc)

dhcpStateRenewing(ctx, ifc, time, xid, alloc) ==
    IF timeCompare(time, Add32(ctx.timestamp, ctx.timeout)) >= 0
    THEN IF timeCompare(time, Add32(ctx.leaseStartTime, Mul32(ctx.t2, 1000))) < 0
         THEN dhcpRenewRequest(ctx, ifc, time, xid, alloc, Mul32(ctx.t2, 1000))
         ELSE Res(dhcpChangeState(ctx, DHCP_STATE_REBINDING, 0, time),
                  ifc, {}, TRUE, FALSE, NoAcc)
    ELSE Res(ctx, ifc, {}, FALSE, FALSE, NoAcc)

\* the invalidation clearing the subnet mask only
ipv4InvalidateHostAddr_mask(ifc) ==
    [ifc EXCEPT !.subnetMask = IPV4_UNSPECIFIED_ADDR]

\* ipv4SetHostAddrEx(interface, IPV4_UNSPECIFIED_ADDR, IPV4_ADDR_STATE_INVALID)
\* followed by ipv4SetSubnetMask(interface, IPV4_UNSPECIFIED_ADDR)
ipv4InvalidateHostAddr(ifc) ==
    [ifc EXCEPT !.ipv4Addr = IPV4_UNSPECIFIED_ADDR,
                !.ipv4AddrState = "Invalid",
                !.subnetMask = IPV4_UNSPECIFIED_ADDR]

\* dhcpStateRebinding without the expiry of the lease
dhcpStateRebinding_noExpiry(ctx, ifc, time, xid, alloc) ==
    IF timeCompare(time, Add32(ctx.timestamp, ctx.timeout)) >= 0
    THEN dhcpRenewRequest(ctx, ifc, time, xid, alloc,
                          Mul32(ctx.leaseTime, 1000))
    ELSE Res(ctx, ifc, {}, FALSE, FALSE, NoAcc)

dhcpStateRebinding(ctx, ifc, time, xid, alloc) ==
    IF timeCompare(time, Add32(ctx.timestamp, ctx.timeout)) >= 0
    THEN IF timeCompare(time, Add32(ctx.leaseStartTime,
                                    Mul32(ctx.leaseTime, 1000))) < 0
         THEN dhcpRenewRequest(ctx, ifc, time, xid, alloc,
                               Mul32(ctx.leaseTime, 1000))
         ELSE Res(dhcpChangeState(ctx, DHCP_STATE_INIT, 0, time),
                  ipv4InvalidateHostAddr(ifc), {}, TRUE, FALSE, NoAcc)
    ELSE Res(ctx, ifc, {}, FALSE, FALSE, NoAcc)

\* the body of dhcpClientTick between acquiring the mutex and the first
\* callback or the release; rnd holds the values drawn from the random
\* source and the outcome of the buffer allocation
dhcpClientTick(ctx, ifc, time, rnd) ==
    CASE ctx.state = DHCP_STATE_INIT ->
            dhcpStateInit(ctx, ifc, time, rnd.delay)
      [] ctx.state = DHCP_STATE_SELECTING ->
            dhcpStateSelecting(ctx, ifc, time, rnd.xid, rnd.jitter, rnd.alloc)
      [] ctx.state = DHCP_STATE_REQUESTING ->
            dhcpStateRequesting(ctx, ifc, time, rnd.xid, rnd.jitter, rnd.alloc)
      [] ctx.state = DHCP_STATE_INIT_REBOOT ->
            dhcpStateInitReboot(ctx, ifc, time, rnd.delay)
      [] ctx.state = DHCP_STATE_REBOOTING ->
            dhcpStateRequesting(ctx, ifc, time, rnd.xid, rnd.jitter, rnd.alloc)
      [] ctx.state = DHCP_STATE_BOUND ->
            dhcpStateBound(ctx, ifc, time)
      [] ctx.state = DHCP_STATE_RENEWING ->
            dhcpStateRenewing(ctx, ifc, time, rnd.xid, rnd.alloc)
      [] ctx.state = DHCP_STATE_REBINDING ->
            dhcpStateRebinding(ctx, ifc, time, rnd.xid, rnd.alloc)
      [] OTHER ->
            Res([ctx EXCEPT !.state = DHCP_STATE_INIT], ifc, {}, FALSE, FALSE, NoAcc)

(***************************************************************************)
(* DHCPv4 client: message parsing.                                         *)
(***************************************************************************)
\* the checks on the fixed header shared by dhcpParseOffer and dhcpParseAckNak
\* the header test without the comparison of the transaction identifier
dhcpHeaderOk_anyXid(ctx, message) ==
    /\ message.op = DHCP_OPCODE_BOOTREPLY
    /\ message.htype = DHCP_HARDWARE_TYPE_ETH
    /\ message.hlen = MacAddrSize

dhcpHeaderOk(ctx, message) ==
    /\ message.op = DHCP_OPCODE_BOOTREPLY
    /\ message.htype = DHCP_HARDWARE_TYPE_ETH
    /\ message.hlen = MacAddrSize
    /\ message.xid = ctx.transactionId

dhcpTrailerOk(message) ==
    /\ message.chaddr = "mine"
    /\ message.magicCookie

\* dhcpParseOffer discarding every offer
dhcpParseOffer_discard(ctx, ifc, message, time) ==
    Res(ctx, ifc, {}, FALSE, FALSE, NoAcc)

dhcpParseOffer(ctx, ifc, message, time) ==
    IF /\ dhcpHeaderOk(ctx, message)
       /\ message.yiaddr # IPV4_UNSPECIFIED_ADDR
       /\ dhcpTrailerOk(message)
       /\ OptOk(message.msgType)
       /\ message.msgType[1] = DHCP_MESSAGE_TYPE_OFFER
       /\ OptOk(message.serverId)
    THEN Res(dhcpChangeState([ctx EXCEPT !.serverIpAddr = message.serverId[1],
                                         !.requestedIpAddr = message.yiaddr],
                             DHCP_STATE_REQUESTING, 0, time),
             ifc, {}, TRUE, FALSE, [type |-> "OFFER", xid |-> message.xid])
    ELSE Res(ctx, ifc, {}, FALSE, FALSE, NoAcc)

\* T1 and T2 of an acknowledged lease: the option when it is there, else the
\* fraction num/den of a finite lease, else infinite
dhcpLeaseTimer(option, leaseTime, num, den) ==
    IF OptOk(option) THEN option[1]
    ELSE IF leaseTime # DHCP_INFINITE_TIME
    THEN UDiv(Mul32(leaseTime, num), den)
    ELSE DHCP_INFINITE_TIME

\* dhcpApplyAck storing the DNS servers of the acknowledgment whatever
\* settings.manualDnsConfig says
dhcpApplyAck_dns(ifc, message, manualDnsConfig) ==
    [ifc EXCEPT !.subnetMask = IF OptOk(message.subnetMask)
                               THEN message.subnetMask[1] ELSE @,
                !.defaultGateway = IF Len(message.router) >= 1
                                   THEN message.router[1] ELSE @,
                !.dnsServer = IF Len(message.dns) >= 1
                              THEN message.dns[1] ELSE @,
                !.mtu = IF OptOk(message.mtu) THEN message.mtu[1] ELSE @,
                !.ipv4Addr = message.yiaddr,
                !.ipv4AddrState = "Valid"]

\* the configuration an acknowledgment leaves on the interface; dnsServer is
\* the first entry of ipv4Config.dnsServer
dhcpApplyAck(ifc, message, manualDnsConfig) ==
    [ifc EXCEPT !.subnetMask = IF OptOk(message.subnetMask)
                               THEN message.subnetMask[1] ELSE @,
                !.defaultGateway = IF Len(message.router) >= 1
                                   THEN message.router[1] ELSE @,
                !.dnsServer = IF ~manualDnsConfig /\ Len(message.dns) >= 1
                              THEN message.dns[1] ELSE @,
                !.mtu = IF OptOk(message.mtu) THEN message.mtu[1] ELSE @,
                !.ipv4Addr = message.yiaddr,
                !.ipv4AddrState = "Valid"]

dhcpParseAckNak(ctx, ifc, message, time, manualDnsConfig) ==
    IF ~(dhcpHeaderOk(ctx, message) /\ dhcpTrailerOk(message)
         /\ OptOk(message.msgType))
    THEN Res(ctx, ifc, {}, FALSE, FALSE, NoAcc)
    ELSE IF message.msgType[1] = DHCP_MESSAGE_TYPE_NAK
    THEN Res(dhcpChangeState(ctx, DHCP_STATE_INIT, 0, time),
             ipv4InvalidateHostAddr(ifc), {}, TRUE, FALSE,
             [type |-> "NAK", xid |-> message.xid])
    ELSE IF /\ message.msgType[1] = DHCP_MESSAGE_TYPE_ACK
            /\ OptOk(message.serverId)
            /\ message.serverId[1] = ctx.serverIpAddr
            /\ OptOk(message.leaseTime)
    THEN LET lease == message.leaseTime[1]
             c1 == [ctx EXCEPT !.leaseTime = lease,
                               !.t1 = dhcpLeaseTimer(message.t1, lease, 1, 2),
                               !.t2 = dhcpLeaseTimer(message.t2, lease, 7, 8),
                               !.leaseStartTime = time]
         IN  Res(dhcpChangeState(c1, DHCP_STATE_BOUND, 0, time),
                 dhcpApplyAck(ifc, message, manualDnsConfig), {}, TRUE, FALSE,
                 [type |-> "ACK", xid |-> message.xid])
    ELSE Res(ctx, ifc, {}, FALSE, FALSE, NoAcc)

\* the body of dhcpClientProcessMessage; a datagram shorter than the fixed
\* header or longer than the largest message is dropped before the mutex
dhcpClientProcessMessage(ctx, ifc, message, time, manualDnsConfig) ==
    IF ctx.state = DHCP_STATE_SELECTING
    THEN dhcpParseOffer(ctx, ifc, message, time)
    ELSE IF ctx.state \in {DHCP_STATE_REQUESTING, DHCP_STATE_REBOOTING,
                           DHCP_STATE_RENEWING, DHCP_STATE_REBINDING}
    THEN dhcpParseAckNak(ctx, ifc, message, time, manualDnsConfig)
    ELSE Res(ctx, ifc, {}, FALSE, FALSE, NoAcc)

\* dhcpClientLinkChangeEvent always restarting from INIT
dhcpClientLinkChangeEvent_init(ctx, ifc) ==
    Res([ctx EXCEPT !.state = DHCP_STATE_INIT],
        IF ctx.running THEN ipv4InvalidateHostAddr(ifc) ELSE ifc,
        {}, FALSE, FALSE, NoAcc)

\* the body of dhcpClientLinkChangeEvent under the mutex
dhcpClientLinkChangeEvent(ctx, ifc) ==
    Res([ctx EXCEPT !.state = IF ctx.state >= DHCP_STATE_INIT_REBOOT
                              THEN DHCP_STATE_INIT_REBOOT
                              ELSE DHCP_STATE_INIT],
        IF ctx.running THEN ipv4InvalidateHostAddr(ifc) ELSE ifc,
        {}, FALSE, FALSE, NoAcc)

\* dhcpCheckTimeout without the test of timeoutEventDone
dhcpCheckTimeout_noFlag(ctx, stg, time) ==
    /\ stg.timeoutEvent
    /\ timeCompare(time, ctx.configStartTime + stg.timeout) >= 0

\* dhcpCheckTimeout: whether the timeout callback is invoked
dhcpCheckTimeout(ctx, stg, time) ==
    /\ stg.timeoutEvent
    /\ timeCompare(time, ctx.configStartTime + stg.timeout) >= 0
    /\ ~ctx.timeoutEventDone

dhcpClientStart(ctx) ==
    [ctx EXCEPT !.running = TRUE, !.state = DHCP_STATE_INIT]

dhcpClientStop(ctx) ==
    [ctx EXCEPT !.running = FALSE, !.state = DHCP_STATE_INIT]

\* dhcpClientInit: the context is cleared, then stopped in INIT
dhcpClientInit ==
    [running |-> FALSE, state |-> DHCP_STATE_INIT,
     timestamp |-> 0, timeout |-> 0, retransmitTimeout |-> 0,
     retransmitCount |-> 0, transactionId |-> 0,
     serverIpAddr |-> IPV4_UNSPECIFIED_ADDR,
     requestedIpAddr |-> IPV4_UNSPECIFIED_ADDR,
     configStartTime |-> 0, leaseStartTime |-> 0,
     leaseTime |-> 0, t1 |-> 0, t2 |-> 0, timeoutEventDone |-> FALSE]

(***************************************************************************)
(* DHCPv6 client: constants.                                               *)
(***************************************************************************)
DHCPV6_STATE_INIT == 0
DHCPV6_STATE_SOLICIT == 1
DHCPV6_STATE_REQUEST == 2
DHCPV6_STATE_INIT_CONFIRM == 3
DHCPV6_STATE_CONFIRM == 4
DHCPV6_STATE_BOUND == 5
DHCPV6_STATE_RENEW == 6
DHCPV6_STATE_REBIND == 7
DHCPV6_STATE_DECLINE == 8

Dhcpv6States == DHCPV6_STATE_INIT..DHCPV6_STATE_DECLINE

DHCPV6_CLIENT_SOL_MAX_DELAY == 1000
DHCPV6_CLIENT_SOL_TIMEOUT == 1000
DHCPV6_CLIENT_SOL_MAX_RT == 120000
DHCPV6_CLIENT_REQ_TIMEOUT == 1000
DHCPV6_CLIENT_REQ_MAX_RT == 30000
DHCPV6_CLIENT_REQ_MAX_RC == 10
DHCPV6_CLIENT_CNF_MAX_DELAY == 1000
DHCPV6_CLIENT_CNF_TIMEOUT == 1000
DHCPV6_CLIENT_CNF_MAX_RT == 4000
DHCPV6_CLIENT_CNF_MAX_RD == 10000
DHCPV6_CLIENT_REN_TIMEOUT == 10000
DHCPV6_CLIENT_REN_MAX_RT == 600000
DHCPV6_CLIENT_REB_TIMEOUT == 10000
DHCPV6_CLIENT_REB_MAX_RT == 600000

\* 0xFFFFFFFF as a 32-bit pattern
DHCPV6_INFINITE_TIME == -1

DHCPV6_MSG_TYPE_ADVERTISE == 2
DHCPV6_MSG_TYPE_REPLY == 7
DHCPV6_MAX_SERVER_PREFERENCE == 255
DHCPV6_MAX_DUID_SIZE == 128

\* sizeof(Dhcpv6DuidLl): type, hardware type and MAC address
Dhcpv6DuidLlSize == 10

\* an IPv6 address is a 64-bit prefix and a 64-bit interface identifier
Ipv6Addr(prefix, id) == [prefix |-> prefix, id |-> id]

IPV6_UNSPECIFIED_ADDR == Ipv6Addr(0, <<0, 0, 0, 0, 0, 0, 0, 0>>)

(***************************************************************************)
(* DHCPv6 client: state machine.                                           *)
(***************************************************************************)
\* C division truncates towards zero
CDiv(a, b) == IF a >= 0 THEN a \div b ELSE -((-a) \div b)

\* dhcpv6Rand taking the factor in hundredths
dhcpv6Rand_hundredths(value, factor) == CDiv(value * factor, 100)

\* dhcpv6Rand(value) with factor the value drawn by dhcpv6RandRange(-100, 100)
dhcpv6Rand(value, factor) == CDiv(value * factor, 1000)

\* dhcpv6RandRange(lo, hi): the two ends of the range
dhcpv6RandRange(lo, hi) == {lo, hi}

dhcpv6ChangeState(ctx, newState, delay, time) ==
    [ctx EXCEPT !.timestamp = time,
                !.timeout = delay,
                !.retransmitCount = 0,
                !.state = newState]

\* ipv6SetGlobalAddrEx: the duplicate flag of the slot is cleared
ipv6SetGlobalAddrEx(ifc, addr, state) ==
    [ifc EXCEPT !.globalAddr = addr, !.globalAddrState = state,
                !.globalAddrDup = FALSE]

dhcpv6StateInitTo(ctx, ifc, time, delay, newState) ==
    IF ctx.running /\ ifc.linkState
    THEN Res(dhcpv6ChangeState([ctx EXCEPT !.configStartTime = time,
                                           !.timeoutEventDone = FALSE],
                               newState, delay, time),
             ifc, {}, TRUE, FALSE, NoAcc)
    ELSE Res(ctx, ifc, {}, FALSE, FALSE, NoAcc)

dhcpv6StateInit(ctx, ifc, time, delay) ==
    dhcpv6StateInitTo(ctx, ifc, time, delay, DHCPV6_STATE_SOLICIT)

dhcpv6StateInitConfirm(ctx, ifc, time, delay) ==
    dhcpv6StateInitTo(ctx, ifc, time, delay, DHCPV6_STATE_CONFIRM)

\* ndpSendRouterSol
RouterSol == {[type |-> "RS", xid |-> -1]}

\* ff02::1:2, the group of all DHCPv6 relay agents and servers
DHCPV6_ALL_RELAY_AGENTS_AND_SERVERS_ADDR == "ff02::1:2"

\* a DHCPv6 message addressed to the server alone
Dhcpv6Datagram_unicast(alloc, elapsed, type, xid, server) ==
    IF alloc
    THEN {[type |-> type, xid |-> xid, dest |-> "unicast", server |-> server,
           elapsed |-> elapsed]}
    ELSE {}

\* the Elapsed Time option of a message sent at time: 0 for the first message,
\* else the hundredths of a second since exchangeStartTime, at most 0xFFFF
dhcpv6ComputeElapsedTime(ctx, time) ==
    IF ctx.retransmitCount > 0
    THEN Min((time - ctx.exchangeStartTime) \div 10, 65535)
    ELSE 0

\* a DHCPv6 message handed to UDP: its destination, its Server Identifier
\* option (server is <<>> when the message carries none) and its Elapsed Time
\* option; nothing is sent when the buffer cannot be allocated
Dhcpv6Datagram(alloc, elapsed, type, xid, server) ==
    IF alloc
    THEN {[type |-> type, xid |-> xid,
           dest |-> DHCPV6_ALL_RELAY_AGENTS_AND_SERVERS_ADDR, server |-> server,
           elapsed |-> elapsed]}
    ELSE {}

\* the first transmission of an exchange: RT = IRT + RAND * IRT
dhcpv6FirstRt(ctx, time, xid, irt, factor) ==
    [ctx EXCEPT !.transactionId = xid % 16777216,
                !.timestamp = time,
                !.timeout = irt + dhcpv6Rand(irt, factor),
                !.retransmitCount = @ + 1]

\* a retransmission: RT = min(2 * RTprev, MRT), then RT + RAND * RT
dhcpv6NextRt(ctx, time, mrt, factor) ==
    LET rt == Min(2 * ctx.timeout, mrt)
    IN  [ctx EXCEPT !.timestamp = time,
                    !.timeout = rt + dhcpv6Rand(rt, factor),
                    !.retransmitCount = @ + 1]

dhcpv6StateSolicit(ctx, ifc, time, xid, factor, alloc) ==
    IF timeCompare(time, ctx.timestamp + ctx.timeout) >= 0
    THEN IF ctx.retransmitCount = 0
         THEN Res(dhcpv6FirstRt([ctx EXCEPT !.serverPreference = -1], time, xid,
                                DHCPV6_CLIENT_SOL_TIMEOUT, factor),
                  ifc, RouterSol \cup Dhcpv6Datagram(alloc, dhcpv6ComputeElapsedTime(ctx, time),
                                                     "SOLICIT", xid % 16777216,
                                                  NoOpt),
                  FALSE, TRUE, NoAcc)
         ELSE IF ctx.serverPreference >= 0
         THEN Res(dhcpv6ChangeState(ctx, DHCPV6_STATE_REQUEST, 0, time),
                  ifc, {}, TRUE, TRUE, NoAcc)
         ELSE Res(dhcpv6NextRt(ctx, time, DHCPV6_CLIENT_SOL_MAX_RT, factor),
                  ifc, Dhcpv6Datagram(alloc, dhcpv6ComputeElapsedTime(ctx, time),
                                      "SOLICIT", ctx.transactionId, NoOpt),
                  FALSE, TRUE, NoAcc)
    ELSE Res(ctx, ifc, {}, FALSE, TRUE, NoAcc)

\* dhcpv6StateRequest giving up one transmission later
dhcpv6StateRequest_oneMore(ctx, ifc, time, xid, factor, alloc) ==
    IF timeCompare(time, ctx.timestamp + ctx.timeout) >= 0
    THEN IF ctx.retransmitCount = 0
         THEN Res(dhcpv6FirstRt(ctx, time, xid, DHCPV6_CLIENT_REQ_TIMEOUT, factor),
                  ifc, Dhcpv6Datagram(alloc, dhcpv6ComputeElapsedTime(ctx, time),
                                      "REQUEST", xid % 16777216,
                                      <<ctx.serverId>>),
                  FALSE, TRUE, NoAcc)
         ELSE IF ctx.retransmitCount <= DHCPV6_CLIENT_REQ_MAX_RC
         THEN Res(dhcpv6NextRt(ctx, time, DHCPV6_CLIENT_REQ_MAX_RT, factor),
                  ifc, Dhcpv6Datagram(alloc, dhcpv6ComputeElapsedTime(ctx, time),
                                      "REQUEST", ctx.transactionId,
                                      <<ctx.serverId>>),
                  FALSE, TRUE, NoAcc)
         ELSE Res(dhcpv6ChangeState(ctx, DHCPV6_STATE_INIT, 0, time),
                  ifc, {}, TRUE, TRUE, NoAcc)
    ELSE Res(ctx, ifc, {}, FALSE, TRUE, NoAcc)

dhcpv6StateRequest(ctx, ifc, time, xid, factor, alloc) ==
    IF timeCompare(time, ctx.timestamp + ctx.timeout) >= 0
    THEN IF ctx.retransmitCount = 0
         THEN Res(dhcpv6FirstRt(ctx, time, xid, DHCPV6_CLIENT_REQ_TIMEOUT, factor),
                  ifc, Dhcpv6Datagram(alloc, dhcpv6ComputeElapsedTime(ctx, time),
                                      "REQUEST", xid % 16777216,
                                      <<ctx.serverId>>),
                  FALSE, TRUE, NoAcc)
         ELSE IF ctx.retransmitCount < DHCPV6_CLIENT_REQ_MAX_RC
         THEN Res(dhcpv6NextRt(ctx, time, DHCPV6_CLIENT_REQ_MAX_RT, factor),
                  ifc, Dhcpv6Datagram(alloc, dhcpv6ComputeElapsedTime(ctx, time),
                                      "REQUEST", ctx.transactionId,
                                      <<ctx.serverId>>),
                  FALSE, TRUE, NoAcc)
         ELSE Res(dhcpv6ChangeState(ctx, DHCPV6_STATE_INIT, 0, time),
                  ifc, {}, TRUE, TRUE, NoAcc)
    ELSE Res(ctx, ifc, {}, FALSE, TRUE, NoAcc)

dhcpv6StateConfirm(ctx, ifc, time, xid, factor, alloc) ==
    IF timeCompare(time, ctx.timestamp + ctx.timeout) >= 0
    THEN IF ctx.retransmitCount = 0
         THEN Res(dhcpv6FirstRt([ctx EXCEPT !.exchangeStartTime = time], time, xid,
                                DHCPV6_CLIENT_CNF_TIMEOUT, factor),
                  ifc, RouterSol \cup Dhcpv6Datagram(alloc, dhcpv6ComputeElapsedTime(ctx, time),
                                                     "CONFIRM", xid % 16777216,
                                                  NoOpt),
                  FALSE, TRUE, NoAcc)
         ELSE Res(dhcpv6NextRt(ctx, time, DHCPV6_CLIENT_CNF_MAX_RT, factor),
                  ifc, Dhcpv6Datagram(alloc, dhcpv6ComputeElapsedTime(ctx, time),
                                      "CONFIRM", ctx.transactionId, NoOpt),
                  FALSE, TRUE, NoAcc)
    ELSE IF /\ ctx.retransmitCount > 0
            /\ timeCompare(time, ctx.exchangeStartTime
                                 + DHCPV6_CLIENT_CNF_MAX_RD) >= 0
    THEN Res(dhcpv6ChangeState(ctx, DHCPV6_STATE_INIT, 0, time),
             ifc, {}, TRUE, TRUE, NoAcc)
    ELSE Res(ctx, ifc, {}, FALSE, TRUE, NoAcc)

dhcpv6StateBound(ctx, ifc, time) ==
    IF ctx.t1 # DHCPV6_INFINITE_TIME
       /\ timeCompare(time, ctx.leaseStartTime + ctx.t1 * 1000) >= 0
    THEN Res(dhcpv6ChangeState([ctx EXCEPT !.configStartTime = time],
                               DHCPV6_STATE_RENEW, 0, time),
             ifc, {}, TRUE, FALSE, NoAcc)
    ELSE Res(ctx, ifc, {}, FALSE, FALSE, NoAcc)

\* the transmission step shared by RENEW and REBIND
dhcpv6RenewRt(ctx, time, xid, irt, mrt, factor) ==
    LET c1 == IF ctx.retransmitCount = 0
              THEN [ctx EXCEPT !.transactionId = xid % 16777216, !.timeout = irt]
              ELSE [ctx EXCEPT !.timeout = Min(2 * @, mrt)]
    IN  [c1 EXCEPT !.timestamp = time,
                   !.timeout = @ + dhcpv6Rand(@, factor),
                   !.retransmitCount = @ + 1]

dhcpv6StateRenew(ctx, ifc, time, xid, factor, alloc) ==
    IF timeCompare(time, ctx.timestamp + ctx.timeout) >= 0
    THEN LET c1 == dhcpv6RenewRt(ctx, time, xid, DHCPV6_CLIENT_REN_TIMEOUT,
                                 DHCPV6_CLIENT_REN_MAX_RT, factor)
         IN  Res(c1, ifc, Dhcpv6Datagram(alloc, dhcpv6ComputeElapsedTime(ctx, time),
                                         "RENEW", c1.transactionId,
                                        <<ctx.serverId>>),
                 FALSE, FALSE, NoAcc)
    ELSE IF /\ ctx.t2 # DHCPV6_INFINITE_TIME
            /\ timeCompare(time, ctx.leaseStartTime + ctx.t2 * 1000) >= 0
    THEN Res(dhcpv6ChangeState(ctx, DHCPV6_STATE_REBIND, 0, time),
             ifc, {}, TRUE, FALSE, NoAcc)
    ELSE Res(ctx, ifc, {}, FALSE, FALSE, NoAcc)

dhcpv6StateRebind(ctx, ifc, time, xid, factor, alloc) ==
    IF timeCompare(time, ctx.timestamp + ctx.timeout) >= 0
    THEN LET c1 == dhcpv6RenewRt(ctx, time, xid, DHCPV6_CLIENT_REB_TIMEOUT,
                                 DHCPV6_CLIENT_REB_MAX_RT, factor)
         IN  Res(c1, ifc, Dhcpv6Datagram(alloc, dhcpv6ComputeElapsedTime(ctx, time),
                                         "REBIND", c1.transactionId, NoOpt),
                 FALSE, FALSE, NoAcc)
    ELSE IF /\ ctx.validLifetime # DHCPV6_INFINITE_TIME
            /\ timeCompare(time, ctx.leaseStartTime
                                 + ctx.validLifetime * 1000) >= 0
    THEN Res(dhcpv6ChangeState(ctx, DHCPV6_STATE_INIT, 0, time),
             ipv6SetGlobalAddrEx(ifc, IPV6_UNSPECIFIED_ADDR, "Invalid"),
             {}, TRUE, FALSE, NoAcc)
    ELSE Res(ctx, ifc, {}, FALSE, FALSE, NoAcc)

\* the body of dhcpv6ClientTick; the switch has no case for DECLINE
dhcpv6ClientTick(ctx, ifc, time, rnd) ==
    CASE ctx.state = DHCPV6_STATE_INIT ->
            dhcpv6StateInit(ctx, ifc, time, rnd.delay)
      [] ctx.state = DHCPV6_STATE_SOLICIT ->
            dhcpv6StateSolicit(ctx, ifc, time, rnd.xid, rnd.jitter, rnd.alloc)
      [] ctx.state = DHCPV6_STATE_REQUEST ->
            dhcpv6StateRequest(ctx, ifc, time, rnd.xid, rnd.jitter, rnd.alloc)
      [] ctx.state = DHCPV6_STATE_INIT_CONFIRM ->
            dhcpv6StateInitConfirm(ctx, ifc, time, rnd.delay)
      [] ctx.state = DHCPV6_STATE_CONFIRM ->
            dhcpv6StateConfirm(ctx, ifc, time, rnd.xid, rnd.jitter, rnd.alloc)
      [] ctx.state = DHCPV6_STATE_BOUND ->
            dhcpv6StateBound(ctx, ifc, time)
      [] ctx.state = DHCPV6_STATE_RENEW ->
            dhcpv6StateRenew(ctx, ifc, time, rnd.xid, rnd.jitter, rnd.alloc)
      [] ctx.state = DHCPV6_STATE_REBIND ->
            dhcpv6StateRebind(ctx, ifc, time, rnd.xid, rnd.jitter, rnd.alloc)
      [] OTHER ->
            Res([ctx EXCEPT !.state = DHCPV6_STATE_INIT], ifc, {}, FALSE, FALSE,
                NoAcc)

(***************************************************************************)
(* DHCPv6 options on the wire: a 2-byte code, a 2-byte length and the      *)
(* value, big-endian (RFC 3315).  The options field of a message is the    *)
(* sequence of its bytes; offsets into it count from 0.                    *)
(***************************************************************************)
DHCPV6_OPTION_CLIENTID == 1
DHCPV6_OPTION_SERVERID == 2
DHCPV6_OPTION_IA_NA == 3
DHCPV6_OPTION_IAADDR == 5
DHCPV6_OPTION_PREFERENCE == 7
DHCPV6_OPTION_STATUS_CODE == 13
DHCPV6_OPTION_RAPID_COMMIT == 14
DHCPV6_OPTION_DNS_SERVERS == 23
DHCPV6_STATUS_NO_ADDRS_AVAILABLE == 2

Bytes2(n) == <<n \div 256, n % 256>>

Bytes4(n) == <<n \div 16777216, (n \div 65536) % 256, (n \div 256) % 256, n % 256>>

\* ntohs and ntohl of the bytes at an offset
Word2(bytes, at) == bytes[at + 1] * 256 + bytes[at + 2]

Word4(bytes, at) == Word2(bytes, at) * 65536 + Word2(bytes, at + 2)

RECURSIVE Concat(_)
Concat(seqs) == IF seqs = <<>> THEN <<>> ELSE Head(seqs) \o Concat(Tail(seqs))

\* sizeof(Dhcpv6Option), sizeof(Dhcpv6IaNaOption), sizeof(Dhcpv6IaAddrOption)
Dhcpv6OptionSize == 4
Dhcpv6IaNaOptionSize == 12
Dhcpv6IaAddrOptionSize == 24

Dhcpv6Option(code, value) == Bytes2(code) \o Bytes2(Len(value)) \o value

\* the bytes of a DUID: a DUID-LL header and a last byte that tells the
\* identifiers of the model apart
DuidBytes(duid) ==
    [i \in 1..duid.length |->
        IF i = 2 THEN 3
        ELSE IF i = 4 THEN 1
        ELSE IF i = duid.length
        THEN (CASE duid.value = "mine" -> 1 [] duid.value = "s1" -> 17
                [] duid.value = "s2" -> 18 [] OTHER -> 2)
        ELSE 0]

\* the prefix of the model is the leading 16-bit group of the address, the
\* other groups of the upper half being zero
Ipv6AddrBytes(addr) == Bytes2(addr.prefix) \o <<0, 0, 0, 0, 0, 0>> \o addr.id

Ipv6AddrAt(bytes, at) == Ipv6Addr(Word2(bytes, at), SubSeq(bytes, at + 9, at + 16))

\* an IA_NA option as the server writes it: the IA Address options, then the
\* Status Code option of a failure; a short option stops after T1
Dhcpv6IaNaBytes(option) ==
    IF option.short
    THEN Dhcpv6Option(DHCPV6_OPTION_IA_NA, Bytes4(option.iaId) \o Bytes4(option.t1))
    ELSE Dhcpv6Option(DHCPV6_OPTION_IA_NA,
            Bytes4(option.iaId) \o Bytes4(option.t1) \o Bytes4(option.t2)
            \o Concat([k \in 1..Len(option.iaAddr) |->
                         Dhcpv6Option(DHCPV6_OPTION_IAADDR,
                            Ipv6AddrBytes(option.iaAddr[k].address)
                            \o Bytes4(option.iaAddr[k].preferredLifetime)
                            \o Bytes4(option.iaAddr[k].validLifetime))])
            \o (IF option.status THEN <<>>
                ELSE Dhcpv6Option(DHCPV6_OPTION_STATUS_CODE,
                                  Bytes2(DHCPV6_STATUS_NO_ADDRS_AVAILABLE))))

\* the options field of a server message: the IA_NA options stand before
\* the other options or after the two identifiers
Dhcpv6Options(message) ==
    LET ids == Concat([k \in 1..Len(message.clientId) |->
                          Dhcpv6Option(DHCPV6_OPTION_CLIENTID,
                                       DuidBytes(message.clientId[k]))])
               \o Concat([k \in 1..Len(message.serverId) |->
                            Dhcpv6Option(DHCPV6_OPTION_SERVERID,
                                         DuidBytes(message.serverId[k]))])
        ias == Concat([k \in 1..Len(message.iaNa) |->
                          Dhcpv6IaNaBytes(message.iaNa[k])])
        rest == Concat([k \in 1..Len(message.preference) |->
                           Dhcpv6Option(DHCPV6_OPTION_PREFERENCE,
                                        <<message.preference[k]>>)])
                \o (IF message.rapidCommit
                    THEN Dhcpv6Option(DHCPV6_OPTION_RAPID_COMMIT, <<>>) ELSE <<>>)
                \o (IF message.status THEN <<>>
                    ELSE Dhcpv6Option(DHCPV6_OPTION_STATUS_CODE,
                                      Bytes2(DHCPV6_STATUS_NO_ADDRS_AVAILABLE)))
                \o Dhcpv6Option(DHCPV6_OPTION_DNS_SERVERS,
                                Concat([k \in 1..Len(message.dns) |->
                                           Ipv6AddrBytes(message.dns[k])]))
    IN  IF message.iaNaFirst THEN ias \o ids \o rest ELSE ids \o ias \o rest

\* no option found
NoOption == -1

\* dhcpv6GetOption: the offset of the first option with the code among the
\* options that start at the offset from, or NoOption
RECURSIVE dhcpv6GetOption(_, _, _)
dhcpv6GetOption(options, from, code) ==
    IF from + Dhcpv6OptionSize > Len(options) THEN NoOption
    ELSE LET length == Word2(options, from + 2)
         IN  IF from + Dhcpv6OptionSize + length > Len(options) THEN NoOption
             ELSE IF Word2(options, from) = code THEN from
             ELSE dhcpv6GetOption(options, from + Dhcpv6OptionSize + length, code)

\* the value of the option at an offset
Dhcpv6OptionValue(options, at) ==
    SubSeq(options, at + Dhcpv6OptionSize + 1,
           at + Dhcpv6OptionSize + Word2(options, at + 2))

\* dhcpv6ParseStatusCodeOption: no Status Code option, or one that does not
\* report NoAddrsAvail
Dhcpv6StatusOk(options) ==
    LET at == dhcpv6GetOption(options, 0, DHCPV6_OPTION_STATUS_CODE)
    IN  \/ at = NoOption
        \/ Word2(options, at + 2) < 2
        \/ Word2(options, at + Dhcpv6OptionSize) # DHCPV6_STATUS_NO_ADDRS_AVAILABLE

\* the IA_NA option that starts at an offset of the options field, as
\* dhcpv6ParseIaNaOption reads it
Dhcpv6IaNaAt(options, at) ==
    LET value == Dhcpv6OptionValue(options, at)
        sub == SubSeq(value, Dhcpv6IaNaOptionSize + 1, Len(value))
        addr == dhcpv6GetOption(sub, 0, DHCPV6_OPTION_IAADDR)
    IN  IF Len(value) < Dhcpv6IaNaOptionSize
        THEN [short |-> TRUE, iaId |-> 0, t1 |-> 0, t2 |-> 0, status |-> TRUE,
              iaAddr |-> NoOpt]
        ELSE [short |-> FALSE, iaId |-> Word4(value, 0), t1 |-> Word4(value, 4),
              t2 |-> Word4(value, 8), status |-> Dhcpv6StatusOk(sub),
              iaAddr |-> IF \/ addr = NoOption
                            \/ Word2(sub, addr + 2) < Dhcpv6IaAddrOptionSize
                         THEN NoOpt
                         ELSE <<[address |->
                                    Ipv6AddrAt(sub, addr + Dhcpv6OptionSize),
                                 preferredLifetime |->
                                    Word4(sub, addr + Dhcpv6OptionSize + 16),
                                 validLifetime |->
                                    Word4(sub, addr + Dhcpv6OptionSize + 20)]>>]

(***************************************************************************)
(* DHCPv6 client: message parsing.  A DUID is its length and its bytes.    *)
(* The IA_NA options of a message are the sequence iaNa, in the order of   *)
(* the message.                                                            *)
(***************************************************************************)
\* dhcpv6ParseIaNaOption: the context is written only when the option is valid
dhcpv6ParseIaNaOption(ctx, ifc, option) ==
    IF \/ option.short
       \/ option.iaId # ifc.id
       \/ (option.t1 > option.t2 /\ option.t2 > 0)
       \/ ~option.status
       \/ ~OptOk(option.iaAddr)
    THEN [error |-> TRUE, ctx |-> ctx]
    ELSE LET a == option.iaAddr[1]
         IN  IF a.preferredLifetime > a.validLifetime
             THEN [error |-> TRUE, ctx |-> ctx]
             ELSE LET t1 == IF option.t1 = 0
                            THEN a.preferredLifetime \div 2 ELSE option.t1
                      t2 == IF option.t2 = 0 THEN t1 + t1 \div 2 ELSE option.t2
                  IN  [error |-> FALSE,
                       ctx |-> [ctx EXCEPT !.clientAddr = a.address,
                                           !.t1 = t1, !.t2 = t2,
                                           !.preferredLifetime = a.preferredLifetime,
                                           !.validLifetime = a.validLifetime]]

\* the checks on message type, transaction identifier and identifiers
\* shared by dhcpv6ParseAdvertise and dhcpv6ParseReply
dhcpv6HeaderOk(ctx, message, type) ==
    /\ message.msgType = type
    /\ message.xid = ctx.transactionId
    /\ OptOk(message.clientId)
    /\ message.clientId[1] = ctx.clientId
    /\ OptOk(message.serverId)
    /\ message.serverId[1].length # 0
    /\ ~(message.serverId[1].length >= DHCPV6_MAX_DUID_SIZE)

\* the commit of dhcpv6ParseReply stopping after the address is set Valid
dhcpv6Commit_partial(c, ifc, message, time) ==
    Res([c EXCEPT !.serverId = message.serverId[1]],
        ipv6SetGlobalAddrEx(ifc, c.clientAddr, "Valid"),
        {}, FALSE, FALSE, [type |-> "REPLY", xid |-> message.xid])

\* the commit at the end of dhcpv6ParseReply, c being the context left by
\* dhcpv6ParseIaNaOption
dhcpv6Commit(c, ifc, message, time) ==
    Res(dhcpv6ChangeState([c EXCEPT !.serverId = message.serverId[1],
                                    !.leaseStartTime = time],
                          DHCPV6_STATE_BOUND, 0, time),
        ipv6SetGlobalAddrEx([ifc EXCEPT !.dnsServer6 = IF Len(message.dns) >= 1
                                                       THEN message.dns[1] ELSE @],
                            c.clientAddr, "Valid"),
        {}, TRUE, FALSE, [type |-> "REPLY", xid |-> message.xid])

\* the loop of dhcpv6ParseReply over the options field from the offset i:
\* after an IA_NA option that fails, i advances by the size of that option
RECURSIVE dhcpv6IaNaLoop(_, _, _, _, _, _)
dhcpv6IaNaLoop(ctx, ifc, message, options, time, i) ==
    LET rest == SubSeq(options, i + 1, Len(options))
        option == dhcpv6GetOption(rest, 0, DHCPV6_OPTION_IA_NA)
        p == dhcpv6ParseIaNaOption(ctx, ifc, Dhcpv6IaNaAt(rest, option))
    IN  IF i >= Len(options) \/ option = NoOption
        THEN [error |-> TRUE, res |-> Res(ctx, ifc, {}, FALSE, FALSE, NoAcc)]
        ELSE IF ~p.error
        THEN [error |-> FALSE, res |-> dhcpv6Commit(p.ctx, ifc, message, time)]
        ELSE dhcpv6IaNaLoop(ctx, ifc, message, options, time,
                            i + Dhcpv6OptionSize + Word2(rest, option + 2))

dhcpv6ParseReply(ctx, ifc, message, time, rapidCommit) ==
    LET reject(c) == [error |-> TRUE, res |-> Res(c, ifc, {}, FALSE, FALSE, NoAcc)]
    IN  IF ~dhcpv6HeaderOk(ctx, message, DHCPV6_MSG_TYPE_REPLY)
        THEN reject(ctx)
        ELSE IF ctx.state = DHCPV6_STATE_SOLICIT
        THEN IF ~rapidCommit \/ ~message.rapidCommit
             THEN reject(ctx)
             ELSE LET c1 == [ctx EXCEPT !.serverId = message.serverId[1]]
                  IN  IF ~message.status THEN reject(c1)
                      ELSE dhcpv6IaNaLoop(c1, ifc, message, Dhcpv6Options(message),
                                          time, 0)
        ELSE IF /\ ctx.state \in {DHCPV6_STATE_REQUEST, DHCPV6_STATE_RENEW}
                /\ message.serverId[1] # ctx.serverId
        THEN reject(ctx)
        ELSE IF ~message.status THEN reject(ctx)
        ELSE dhcpv6IaNaLoop(ctx, ifc, message, Dhcpv6Options(message), time, 0)

\* dhcpv6ParseAdvertise after the attempt to parse the message as a Reply
dhcpv6AdvertiseBody(ctx, ifc, message, time) ==
    IF dhcpv6HeaderOk(ctx, message, DHCPV6_MSG_TYPE_ADVERTISE) /\ message.status
    THEN LET serverPreference == IF OptOk(message.preference)
                                 THEN message.preference[1] ELSE 0
             c1 == IF serverPreference > ctx.serverPreference
                   THEN [ctx EXCEPT !.serverPreference = serverPreference,
                                    !.serverId = message.serverId[1]]
                   ELSE ctx
             acc == [type |-> "ADVERTISE", xid |-> message.xid,
                     server |-> message.serverId[1],
                     preference |-> serverPreference]
         IN  IF \/ serverPreference = DHCPV6_MAX_SERVER_PREFERENCE
                \/ c1.retransmitCount > 1
             THEN Res(dhcpv6ChangeState(c1, DHCPV6_STATE_REQUEST, 0, time),
                      ifc, {}, TRUE, FALSE, acc)
             ELSE Res(c1, ifc, {}, FALSE, FALSE, acc)
    ELSE Res(ctx, ifc, {}, FALSE, FALSE, NoAcc)

dhcpv6ParseAdvertise(ctx, ifc, message, time, rapidCommit) ==
    IF rapidCommit
    THEN LET p == dhcpv6ParseReply(ctx, ifc, message, time, rapidCommit)
         IN  IF ~p.error THEN p.res
             ELSE dhcpv6AdvertiseBody(p.res.ctx, ifc, message, time)
    ELSE dhcpv6AdvertiseBody(ctx, ifc, message, time)

\* the body of dhcpv6ClientProcessMessage under the mutex
dhcpv6ClientProcessMessage(ctx, ifc, message, time, rapidCommit) ==
    IF ctx.state = DHCPV6_STATE_SOLICIT
    THEN dhcpv6ParseAdvertise(ctx, ifc, message, time, rapidCommit)
    ELSE IF ctx.state \in {DHCPV6_STATE_REQUEST, DHCPV6_STATE_CONFIRM,
                           DHCPV6_STATE_RENEW, DHCPV6_STATE_REBIND,
                           DHCPV6_STATE_DECLINE}
    THEN dhcpv6ParseReply(ctx, ifc, message, time, rapidCommit).res
    ELSE Res(ctx, ifc, {}, FALSE, FALSE, NoAcc)

\* the body of dhcpv6ClientLinkChangeEvent under the mutex
dhcpv6ClientLinkChangeEvent(ctx, ifc) ==
    Res([ctx EXCEPT !.state = IF ctx.state >= DHCPV6_STATE_INIT_CONFIRM
                              THEN DHCPV6_STATE_INIT_CONFIRM
                              ELSE DHCPV6_STATE_INIT],
        IF ctx.running
        THEN ipv6SetGlobalAddrEx(ifc, IPV6_UNSPECIFIED_ADDR, "Invalid") ELSE ifc,
        {}, FALSE, FALSE, NoAcc)

\* dhcpv6CheckTimeout: whether the timeout callback is invoked
dhcpv6CheckTimeout(ctx, stg, time) ==
    /\ stg.timeoutEvent
    /\ timeCompare(time, ctx.configStartTime + stg.timeout) >= 0
    /\ ~ctx.timeoutEventDone

dhcpv6ClientStart(ctx) ==
    [ctx EXCEPT !.running = TRUE, !.state = DHCPV6_STATE_INIT]

dhcpv6ClientStop(ctx) ==
    [ctx EXCEPT !.running = FALSE, !.state = DHCPV6_STATE_INIT]

NoDuid == [length |-> 0, value |-> "none"]

\* dhcpv6ClientInit: the context is cleared, the client DUID is the DUID-LL
\* of the interface, the client is stopped in INIT
dhcpv6ClientInit ==
    [running |-> FALSE, state |-> DHCPV6_STATE_INIT,
     timestamp |-> 0, timeout |-> 0, retransmitCount |-> 0,
     transactionId |-> 0, serverPreference |-> 0,
     clientId |-> [length |-> Dhcpv6DuidLlSize, value |-> "mine"],
     serverId |-> NoDuid, clientAddr |-> IPV6_UNSPECIFIED_ADDR,
     t1 |-> 0, t2 |-> 0, preferredLifetime |-> 0, validLifetime |-> 0,
     configStartTime |-> 0, exchangeStartTime |-> 0, leaseStartTime |-> 0,
     timeoutEventDone |-> FALSE]

(***************************************************************************)
(* SLAAC engine.                                                           *)
(***************************************************************************)
SlaacStates ==
    {"INIT", "LINK_LOCAL_ADDR_DAD", "ROUTER_SOLICIT", "GLOBAL_ADDR_DAD",
     "CONFIGURED", "NO_ROUTER", "DAD_FAILURE"}

\* fe80::/64
IPV6_LINK_LOCAL_ADDR_PREFIX == 65152

MAC_ADDR_FLAG_LOCAL == 2

\* b ^ MAC_ADDR_FLAG_LOCAL for a byte b
InvertLocalBit(b) ==
    IF (b \div MAC_ADDR_FLAG_LOCAL) % 2 = 1
    THEN b - MAC_ADDR_FLAG_LOCAL ELSE b + MAC_ADDR_FLAG_LOCAL

macAddrToEui64(macAddr) ==
    <<InvertLocalBit(macAddr[1]), macAddr[2], macAddr[3], 255, 254,
      macAddr[4], macAddr[5], macAddr[6]>>

\* ipv6SetLinkLocalAddrEx: the duplicate flag of the slot is cleared
ipv6SetLinkLocalAddrEx(ifc, addr, state) ==
    [ifc EXCEPT !.linkLocalAddr = addr, !.linkLocalAddrState = state,
                !.linkLocalAddrDup = FALSE]

ipv6SetPrefix(ifc, prefix, length) ==
    [ifc EXCEPT !.prefix = prefix, !.prefixLength = length]

\* a Neighbor Solicitation that is never handed to the link
NeighborSol_none(target) == {}

\* ndpSendNeighborSol for the given target address
NeighborSol(target) == {[type |-> "NS", xid |-> -1, target |-> target]}

\* the body of slaacTick under the mutex; delay is the value drawn for the
\* first Router Solicitation
slaacTick(ctx, ifc, time, stg, delay) ==
    LET expired == timeCompare(time, ctx.timestamp + ctx.timeout) >= 0
        same == Res(ctx, ifc, {}, FALSE, FALSE, NoAcc)
    IN  CASE ctx.state = "INIT" ->
                IF ctx.running /\ ifc.linkState
                THEN Res([ctx EXCEPT !.timestamp = time, !.timeout = 0,
                                     !.retransmitCount = 0,
                                     !.state = "LINK_LOCAL_ADDR_DAD"],
                         ipv6SetLinkLocalAddrEx(ifc,
                             Ipv6Addr(IPV6_LINK_LOCAL_ADDR_PREFIX,
                                      macAddrToEui64(ifc.macAddr)),
                             "Tentative"),
                         {}, FALSE, FALSE, NoAcc)
                ELSE same
          [] ctx.state = "LINK_LOCAL_ADDR_DAD" ->
                IF ~expired THEN same
                ELSE IF ifc.linkLocalAddrDup
                THEN Res([ctx EXCEPT !.state = "DAD_FAILURE"],
                         ipv6SetLinkLocalAddrEx(ifc, IPV6_UNSPECIFIED_ADDR,
                                                "Invalid"),
                         {}, FALSE, FALSE, NoAcc)
                ELSE IF ctx.retransmitCount < stg.dupAddrDetectTransmits
                THEN Res([ctx EXCEPT !.timestamp = time,
                                     !.timeout = ifc.retransTimer,
                                     !.retransmitCount = @ + 1],
                         ifc, NeighborSol(ifc.linkLocalAddr), FALSE, FALSE,
                         NoAcc)
                ELSE Res([ctx EXCEPT !.timestamp = time, !.timeout = delay,
                                     !.retransmitCount = 0,
                                     !.state = "ROUTER_SOLICIT"],
                         [ifc EXCEPT !.linkLocalAddrState = "Preferred"],
                         {}, FALSE, FALSE, NoAcc)
          [] ctx.state = "ROUTER_SOLICIT" ->
                IF ~expired THEN same
                ELSE IF ctx.retransmitCount < stg.maxRtrSolicitations
                THEN Res([ctx EXCEPT !.timestamp = time,
                                     !.timeout = stg.rtrSolicitationInterval,
                                     !.retransmitCount = @ + 1],
                         ifc, RouterSol, FALSE, FALSE, NoAcc)
                ELSE Res([ctx EXCEPT !.state = "NO_ROUTER"], ifc, {}, FALSE,
                         FALSE, NoAcc)
          [] ctx.state = "GLOBAL_ADDR_DAD" ->
                IF ~expired THEN same
                ELSE IF ifc.globalAddrDup
                THEN Res([ctx EXCEPT !.state = "DAD_FAILURE"],
                         ipv6SetGlobalAddrEx(ifc, IPV6_UNSPECIFIED_ADDR, "Invalid"),
                         {}, FALSE, FALSE, NoAcc)
                ELSE IF ctx.retransmitCount < stg.dupAddrDetectTransmits
                THEN Res([ctx EXCEPT !.timestamp = time,
                                     !.timeout = ifc.retransTimer,
                                     !.retransmitCount = @ + 1],
                         ifc, NeighborSol(ifc.globalAddr), FALSE, FALSE, NoAcc)
                ELSE Res([ctx EXCEPT !.state = "CONFIGURED"],
                         [ifc EXCEPT !.globalAddrState = "Preferred"],
                         {}, FALSE, FALSE, NoAcc)
          [] OTHER -> same

\* the body of slaacLinkChangeEvent under the mutex
slaacLinkChangeEvent(ctx, ifc) ==
    Res([ctx EXCEPT !.state = "INIT"],
        IF ctx.running
        THEN ipv6SetPrefix(
                 ipv6SetGlobalAddrEx(
                     ipv6SetLinkLocalAddrEx(ifc, IPV6_UNSPECIFIED_ADDR, "Invalid"),
                     IPV6_UNSPECIFIED_ADDR, "Invalid"),
                 0, 0)
        ELSE ifc,
        {}, FALSE, FALSE, NoAcc)

\* slaacProcessRouterAdv, first part: the state and the first Prefix
\* Information option decide whether the advertisement is used
slaacRouterAdvOk(ctx, message) ==
    /\ ctx.state \in {"ROUTER_SOLICIT", "NO_ROUTER"}
    /\ OptOk(message.prefixInfo)
    /\ message.prefixInfo[1].a
    /\ message.prefixInfo[1].prefix # IPV6_LINK_LOCAL_ADDR_PREFIX
    /\ message.prefixInfo[1].validLifetime # 0
    /\ ~(message.prefixInfo[1].preferredLifetime
           > message.prefixInfo[1].validLifetime)
    /\ message.prefixInfo[1].prefixLength = 64

\* slaacProcessRouterAdv, second part: the prefix, the tentative global
\* address and the DNS server go to the interface, then the context is
\* rewritten for GLOBAL_ADDR_DAD
slaacRouterAdvCommit(ctx, ifc, message, time, stg) ==
    LET pi == message.prefixInfo[1]
        i1 == ipv6SetGlobalAddrEx(ipv6SetPrefix(ifc, pi.prefix, pi.prefixLength),
                                   Ipv6Addr(pi.prefix, macAddrToEui64(ifc.macAddr)),
                                   "Tentative")
        i2 == IF ~stg.manualDnsConfig /\ Len(message.rdnss) >= 1
              THEN [i1 EXCEPT !.dnsServer6 = message.rdnss[1]] ELSE i1
    IN  Res([ctx EXCEPT !.timestamp = time, !.timeout = 0,
                        !.retransmitCount = 0, !.state = "GLOBAL_ADDR_DAD"],
            i2, {}, FALSE, FALSE, NoAcc)

slaacStart(ctx) == [ctx EXCEPT !.running = TRUE, !.state = "INIT"]

slaacStop(ctx) == [ctx EXCEPT !.running = FALSE, !.state = "INIT"]

slaacInit ==
    [running |-> FALSE, state |-> "INIT", timestamp |-> 0, timeout |-> 0,
     retransmitCount |-> 0]

(***************************************************************************)
(* Inputs: settings, random draws and received messages.                   *)
(***************************************************************************)
\* settings.timeout of the configurations that register a timeout callback
UserTimeout == 2000

\* the settings of a DHCP client: either all three callbacks, or none with
\* Rapid Commit and with the DNS servers set by hand
DhcpSettings ==
    {[stateChangeEvent |-> cb, timeoutEvent |-> cb, linkChangeEvent |-> cb,
      timeout |-> UserTimeout, rapidCommit |-> ~cb, manualDnsConfig |-> ~cb] :
        cb \in BOOLEAN}

\* the settings of SLAAC: one probe per address, one Router Solicitation
SlaacSettings ==
    {[stateChangeEvent |-> FALSE, timeoutEvent |-> FALSE,
      linkChangeEvent |-> FALSE, timeout |-> 0, rapidCommit |-> FALSE,
      manualDnsConfig |-> FALSE,
      minRtrSolicitationDelay |-> 0, maxRtrSolicitationDelay |-> 1000,
      rtrSolicitationInterval |-> 1000, maxRtrSolicitations |-> 1,
      dupAddrDetectTransmits |-> 1]}

\* the values of S when the handler draws one, a fixed one when it does not
Draw(S, used) == IF used THEN S ELSE {CHOOSE x \in S : TRUE}

\* the random values and the allocation outcome a tick of the DHCPv4 client
\* draws in the state of ctx
DhcpRnd(ctx) ==
    LET sends == ctx.state \in {DHCP_STATE_SELECTING, DHCP_STATE_REQUESTING,
                                DHCP_STATE_REBOOTING, DHCP_STATE_RENEWING,
                                DHCP_STATE_REBINDING}
    IN  [delay : Draw(netGetRandRange(0, DHCP_CLIENT_INIT_DELAY),
                      ctx.state \in {DHCP_STATE_INIT, DHCP_STATE_INIT_REBOOT}),
         xid : Draw(netGetRand, sends /\ ctx.retransmitCount = 0),
         jitter : Draw(netGetRandRange(-DHCP_CLIENT_RAND_FACTOR,
                                       DHCP_CLIENT_RAND_FACTOR),
                       ctx.state \in {DHCP_STATE_SELECTING, DHCP_STATE_REQUESTING,
                                      DHCP_STATE_REBOOTING}),
         alloc : Draw(BOOLEAN, sends)]

\* the same for a tick of the DHCPv6 client; SOL_MAX_DELAY and CNF_MAX_DELAY
\* are the same delay
Dhcpv6Rnd(ctx) ==
    LET sends == ctx.state \in {DHCPV6_STATE_SOLICIT, DHCPV6_STATE_REQUEST,
                                DHCPV6_STATE_CONFIRM, DHCPV6_STATE_RENEW,
                                DHCPV6_STATE_REBIND}
    IN  [delay : Draw(dhcpv6RandRange(0, IF ctx.state = DHCPV6_STATE_INIT_CONFIRM
                                         THEN DHCPV6_CLIENT_CNF_MAX_DELAY
                                         ELSE DHCPV6_CLIENT_SOL_MAX_DELAY),
                      ctx.state \in {DHCPV6_STATE_INIT, DHCPV6_STATE_INIT_CONFIRM}),
         xid : Draw(netGetRand, sends /\ ctx.retransmitCount = 0),
         jitter : Draw(dhcpv6RandRange(-100, 100), sends),
         alloc : Draw(BOOLEAN, sends)]

\* a well-formed DHCPv4 server message of the given type
DhcpMsg(type, xid, sid) ==
    [len |-> "ok", op |-> DHCP_OPCODE_BOOTREPLY,
     htype |-> DHCP_HARDWARE_TYPE_ETH, hlen |-> MacAddrSize,
     xid |-> xid, yiaddr |-> 10, chaddr |-> "mine", magicCookie |-> TRUE,
     msgType |-> <<type>>, serverId |-> <<sid>>, leaseTime |-> <<3>>,
     t1 |-> NoOpt, t2 |-> NoOpt, subnetMask |-> <<255>>, router |-> <<1, 2>>,
     dns |-> <<1>>, mtu |-> <<576>>, rapidCommit |-> FALSE]

\* the three server messages, an acknowledgment that carries nothing but the
\* lease, and an acknowledgment with the Rapid Commit option
DhcpGoodMessages ==
    {DhcpMsg(t, x, 1) : t \in {DHCP_MESSAGE_TYPE_OFFER, DHCP_MESSAGE_TYPE_ACK,
                               DHCP_MESSAGE_TYPE_NAK},
                        x \in netGetRand}
    \cup {[DhcpMsg(DHCP_MESSAGE_TYPE_ACK, 0, 1) EXCEPT
              !.subnetMask = NoOpt, !.router = NoOpt, !.dns = NoOpt,
              !.mtu = NoOpt]}
    \cup {[DhcpMsg(DHCP_MESSAGE_TYPE_ACK, 0, 1) EXCEPT !.rapidCommit = TRUE]}

\* an offer and an acknowledgment with one field broken
DhcpBadMessages ==
    UNION {{[m EXCEPT !.len = "short"], [m EXCEPT !.len = "long"],
            [m EXCEPT !.op = DHCP_OPCODE_BOOTREQUEST],
            [m EXCEPT !.htype = 6], [m EXCEPT !.hlen = 16],
            [m EXCEPT !.yiaddr = IPV4_UNSPECIFIED_ADDR],
            [m EXCEPT !.chaddr = "other"], [m EXCEPT !.magicCookie = FALSE],
            [m EXCEPT !.msgType = NoOpt], [m EXCEPT !.msgType = @ \o @],
            [m EXCEPT !.msgType = <<DHCP_MESSAGE_TYPE_DISCOVER>>],
            [m EXCEPT !.serverId = NoOpt], [m EXCEPT !.serverId = @ \o @],
            [m EXCEPT !.leaseTime = NoOpt]} :
              m \in {DhcpMsg(t, 0, 1) : t \in {DHCP_MESSAGE_TYPE_OFFER,
                                               DHCP_MESSAGE_TYPE_ACK}}}

\* an acknowledgment and a refusal from another server than the selected one
DhcpForeignMessages ==
    {DhcpMsg(DHCP_MESSAGE_TYPE_ACK, x, 2) : x \in netGetRand}
    \cup {DhcpMsg(DHCP_MESSAGE_TYPE_NAK, 0, 2)}

DhcpRxMessages ==
    DhcpGoodMessages \cup DhcpBadMessages \cup DhcpForeignMessages

Duid(value) == [length |-> Dhcpv6DuidLlSize, value |-> value]

\* an IA_NA option for this interface with one address
IaNa == [short |-> FALSE, iaId |-> 1, t1 |-> 1, t2 |-> 2, status |-> TRUE,
         iaAddr |-> <<[address |-> Ipv6Addr(8193, <<0, 0, 0, 0, 0, 0, 0, 20>>),
                       preferredLifetime |-> 2, validLifetime |-> 3]>>]

\* a well-formed DHCPv6 server message of the given type
Dhcpv6Msg(type, xid, sid, preference) ==
    [len |-> "ok", msgType |-> type, xid |-> xid, clientId |-> <<Duid("mine")>>,
     serverId |-> <<Duid(sid)>>, status |-> TRUE, preference |-> preference,
     rapidCommit |-> FALSE, iaNa |-> <<IaNa>>, iaNaFirst |-> TRUE,
     dns |-> <<Ipv6Addr(8193, <<0, 0, 0, 0, 0, 0, 0, 53>>)>>]

Dhcpv6GoodMessages ==
    {Dhcpv6Msg(DHCPV6_MSG_TYPE_ADVERTISE, x, "s1", NoOpt) : x \in netGetRand}
    \cup {Dhcpv6Msg(DHCPV6_MSG_TYPE_ADVERTISE, 0, "s1",
                    <<DHCPV6_MAX_SERVER_PREFERENCE>>),
          Dhcpv6Msg(DHCPV6_MSG_TYPE_ADVERTISE, 0, "s2", <<128>>)}
    \cup {Dhcpv6Msg(DHCPV6_MSG_TYPE_REPLY, x, "s1", NoOpt) : x \in netGetRand}
    \cup {[Dhcpv6Msg(DHCPV6_MSG_TYPE_REPLY, 0, "s1", NoOpt) EXCEPT
              !.rapidCommit = TRUE]}

\* an Advertise and a Reply with one field broken
Dhcpv6BadMessages ==
    UNION {{[m EXCEPT !.len = "short"], [m EXCEPT !.msgType = 1],
            [m EXCEPT !.clientId = NoOpt],
            [m EXCEPT !.clientId = <<Duid("other")>>],
            [m EXCEPT !.serverId = NoOpt],
            [m EXCEPT !.serverId = <<[length |-> 0, value |-> "s1"]>>],
            [m EXCEPT !.serverId =
                <<[length |-> DHCPV6_MAX_DUID_SIZE, value |-> "s1"]>>],
            [m EXCEPT !.serverId =
                <<[length |-> DHCPV6_MAX_DUID_SIZE + 1, value |-> "s1"]>>],
            [m EXCEPT !.status = FALSE]} :
              m \in {Dhcpv6Msg(t, 0, "s1", NoOpt) :
                        t \in {DHCPV6_MSG_TYPE_ADVERTISE, DHCPV6_MSG_TYPE_REPLY}}}
    \cup {[Dhcpv6Msg(DHCPV6_MSG_TYPE_REPLY, 0, "s2", NoOpt) EXCEPT
              !.rapidCommit = TRUE, !.status = FALSE]}
    \cup {[Dhcpv6Msg(DHCPV6_MSG_TYPE_REPLY, 0, "s1", NoOpt) EXCEPT !.iaNa = ia] :
            ia \in {<<>>, <<[IaNa EXCEPT !.short = TRUE]>>,
                    <<[IaNa EXCEPT !.iaId = 2]>>, <<[IaNa EXCEPT !.t1 = 3]>>,
                    <<[IaNa EXCEPT !.status = FALSE]>>,
                    <<[IaNa EXCEPT !.iaAddr = NoOpt]>>,
                    <<[IaNa EXCEPT !.iaAddr[1].preferredLifetime = 4]>>,
                    <<[IaNa EXCEPT !.iaId = 2], IaNa>>}}

Dhcpv6RxMessages == Dhcpv6GoodMessages \cup Dhcpv6BadMessages

\* the Prefix Information option of a well-formed Router Advertisement
PrefixInfo ==
    [a |-> TRUE, prefix |-> 8193, validLifetime |-> 3, preferredLifetime |-> 2,
     prefixLength |-> 64]

RouterAdv(prefixInfo) == [prefixInfo |-> prefixInfo, rdnss |-> NoOpt]

\* the Router Advertisements received: a good one and broken ones
RouterAdvMessages ==
    {RouterAdv(pi) :
        pi \in {<<PrefixInfo>>, NoOpt, <<PrefixInfo, PrefixInfo>>,
                <<[PrefixInfo EXCEPT !.a = FALSE], PrefixInfo>>,
                <<[PrefixInfo EXCEPT !.a = FALSE]>>,
                <<[PrefixInfo EXCEPT !.prefix = IPV6_LINK_LOCAL_ADDR_PREFIX]>>,
                <<[PrefixInfo EXCEPT !.validLifetime = 0]>>,
                <<[PrefixInfo EXCEPT !.preferredLifetime = 4]>>,
                <<[PrefixInfo EXCEPT !.prefixLength = 48]>>}}

(***************************************************************************)
(* The stack task.                                                         *)
(***************************************************************************)
NoRouterAdv == RouterAdv(NoOpt)

\* a position of the stack task: the operation it is in, the point it has
\* reached, whether the state handler still has to run CheckTimeout, and
\* the Router Advertisement being processed
At(op, at, chk, message) ==
    [op |-> op, at |-> at, chk |-> chk, message |-> message]

Idle == At("none", "idle", FALSE, NoRouterAdv)

\* what a step did: the datagrams it emitted, the reply it accepted, whether
\* the thread that touched the context held the mutex (holder is the owner
\* of the mutex at that point), whether it was a step of tick that changed
\* the state of the engine
Event(sent, acc, who, holder, tickChanged) ==
    [sent |-> sent, acc |-> acc, locked |-> (holder = who),
     tickChanged |-> tickChanged]

\* a step that touches no context
NoEvent == Event({}, NoAcc, "none", "none", FALSE)

\* where the stack task is after the body r of operation op: inside the
\* state-change callback, inside the timeout callback (timeoutDue tells whether
\* CheckTimeout invokes it), or back from the operation
AfterBody(op, r, timeoutDue) ==
    IF r.changed /\ settings.stateChangeEvent
    THEN At(op, "stateCb", r.chk, NoRouterAdv)
    ELSE IF r.chk /\ timeoutDue THEN At(op, "timeoutCb", FALSE, NoRouterAdv)
    ELSE Idle

\* the context, FSM state and running flag of the engine on the interface
EngineCtx ==
    IF engine = "dhcp" THEN dhcp ELSE IF engine = "dhcpv6" THEN dhcpv6 ELSE slaac

EngineState == EngineCtx.state

EngineRunning == EngineCtx.running

\* the xid of the request most recently handed to the network
SentXid(sent, last) ==
    IF \E d \in sent : d.xid >= 0
    THEN (CHOOSE d \in sent : d.xid >= 0).xid
    ELSE last

\* the engine's context after a step
SetCtx(ctx) ==
    /\ dhcp' = IF engine = "dhcp" THEN ctx ELSE dhcp
    /\ dhcpv6' = IF engine = "dhcpv6" THEN ctx ELSE dhcpv6
    /\ slaac' = IF engine = "slaac" THEN ctx ELSE slaac

\* before any Advertise is accepted
NoAdvertised == [preference |-> -1, servers |-> {}]

\* the highest Preference among the Advertises accepted in the Solicit
\* exchange, which starts with the transmission of the first Solicit, and the
\* servers that advertised it, after a step with the body r taken from ctx;
\* the record is dropped once the client has left SOLICIT and REQUEST
Advertised(adv, ctx, r) ==
    IF r.acc.type = "ADVERTISE"
    THEN IF r.acc.preference > adv.preference
         THEN [preference |-> r.acc.preference, servers |-> {r.acc.server}]
         ELSE IF r.acc.preference = adv.preference
         THEN [adv EXCEPT !.servers = @ \cup {r.acc.server}]
         ELSE adv
    ELSE IF \/ /\ r.ctx.state = DHCPV6_STATE_SOLICIT
               /\ \/ ctx.state # DHCPV6_STATE_SOLICIT
                  \/ ctx.retransmitCount = 0 /\ r.ctx.retransmitCount = 1
            \/ r.ctx.state \notin {DHCPV6_STATE_SOLICIT, DHCPV6_STATE_REQUEST}
    THEN NoAdvertised
    ELSE adv

\* the time at which the DHCPv6 client made the first transmission of the
\* exchange it is in, if it has made one, after a step that takes its context
\* from ctx to next: the retransmission counter is 0 until that transmission
\* and is reset to 0 by every change of state
FirstSent(fs, ctx, next) ==
    IF engine # "dhcpv6" \/ next.retransmitCount = 0 THEN <<>>
    ELSE IF ctx.retransmitCount = 0 THEN <<now>>
    ELSE fs

\* no Neighbor Solicitation sent yet, no failed detection
NoProbes == [linkLocal |-> 0, global |-> 0, failed |-> FALSE]

\* the Neighbor Solicitations sent for the link-local and for the global
\* address since the address was last written, and whether the detection on
\* the link-local address has failed since the last link change or start,
\* after a step of SLAAC with the body r taken from ctx
Probes(p, op, ctx, r) ==
    LET failure(dad) == ctx.state = dad /\ r.ctx.state = "DAD_FAILURE"
        count(n, addr, written) ==
            IF written THEN 0
            ELSE IF \E d \in r.sent : d.type = "NS" /\ d.target = addr
            THEN n + 1
            ELSE n
    IN  [linkLocal |-> count(p.linkLocal, r.ifc.linkLocalAddr,
                             \/ op = "link"
                             \/ failure("LINK_LOCAL_ADDR_DAD")
                             \/ /\ ctx.state = "INIT"
                                /\ r.ctx.state = "LINK_LOCAL_ADDR_DAD"),
         global |-> count(p.global, r.ifc.globalAddr,
                          op = "link" \/ failure("GLOBAL_ADDR_DAD")),
         failed |-> IF op = "link" THEN FALSE
                    ELSE p.failed \/ failure("LINK_LOCAL_ADDR_DAD")]

\* bookkeeping of a step of the stack task that ran the body r of operation
\* op; holder is the owner of the mutex while it ran; newAttempt tells
\* whether the step is a tick leaving INIT, INIT-REBOOT or INIT-CONFIRM
StackGhosts(op, r, holder, newAttempt) ==
    /\ ev' = Event(r.sent, r.acc, "stack", holder,
                   op = "tick" /\ r.ctx.state # EngineState)
    /\ lastSentXid' = SentXid(r.sent, lastSentXid)
    /\ timeoutCount' = IF newAttempt THEN 0
                       ELSE IF spc'.at = "timeoutCb" THEN Min(timeoutCount + 1, 2)
                       ELSE timeoutCount
    /\ ticksSinceStop' = IF op = "tick" /\ spc'.at = "idle" /\ stopReturned
                         THEN 1 ELSE ticksSinceStop
    /\ advertised' = IF engine = "dhcpv6"
                     THEN Advertised(advertised, dhcpv6, r)
                     ELSE advertised
    /\ probes' = IF engine = "slaac"
                 THEN Probes(probes, op, slaac, r)
                 ELSE probes
    /\ firstSent' = FirstSent(firstSent, dhcpv6, r.ctx)
    /\ UNCHANGED <<engine, settings, now, stopReturned>>

\* one critical section of an engine on the stack task: the mutex is taken,
\* the body r runs, and the mutex is released for a callback or for good
StackStep(op, r, timeoutDue, newAttempt) ==
    /\ mutex = "free"
    /\ mutex' = osReleaseMutex(osAcquireMutex(mutex, "stack"))
    /\ SetCtx(r.ctx)
    /\ interface' = r.ifc
    /\ spc' = AfterBody(op, r, timeoutDue)
    /\ StackGhosts(op, r, osAcquireMutex(mutex, "stack"), newAttempt)

\* a step of the stack task that touches neither context nor interface
StackSkip ==
    /\ ev' = NoEvent
    /\ UNCHANGED <<engine, settings, now, interface, dhcp, dhcpv6, slaac, mutex,
                   lastSentXid, stopReturned, ticksSinceStop, timeoutCount,
                   advertised, probes, firstSent>>

DhcpTick ==
    /\ engine = "dhcp"
    /\ spc.at = "idle"
    /\ \E rnd \in DhcpRnd(dhcp) :
          LET r == dhcpClientTick(dhcp, interface, now, rnd)
          IN  StackStep("tick", r, dhcpCheckTimeout(r.ctx, settings, now),
                        r.changed /\ dhcp.state \in {DHCP_STATE_INIT,
                                                     DHCP_STATE_INIT_REBOOT})

\* dhcpClientProcessMessage: a datagram shorter than the fixed header or
\* longer than the largest message is dropped before the mutex is taken
DhcpReceive ==
    /\ engine = "dhcp"
    /\ spc.at = "idle"
    /\ \E message \in DhcpRxMessages :
          IF message.len # "ok"
          THEN UNCHANGED spc /\ StackSkip
          ELSE StackStep("recv",
                         dhcpClientProcessMessage(dhcp, interface, message, now,
                                                  settings.manualDnsConfig),
                         FALSE, FALSE)

\* nicNotifyLinkChange: the driver reports the link state, the engine's
\* link-change hook runs, then the user's link-change callback
LinkChange(r) ==
    /\ mutex = "free"
    /\ mutex' = osReleaseMutex(osAcquireMutex(mutex, "stack"))
    /\ SetCtx(r.ctx)
    /\ interface' = r.ifc
    /\ spc' = IF settings.linkChangeEvent
              THEN At("link", "linkCb", FALSE, NoRouterAdv) ELSE Idle
    /\ StackGhosts("link", r, osAcquireMutex(mutex, "stack"), FALSE)

DhcpLinkChange ==
    /\ engine = "dhcp"
    /\ spc.at = "idle"
    /\ \E up \in BOOLEAN :
          LinkChange(dhcpClientLinkChangeEvent(
                         dhcp, [interface EXCEPT !.linkState = up]))

\* the state-change callback returns: dhcpChangeState takes the mutex again,
\* and a state handler that ends in dhcpCheckTimeout runs it
DhcpStateCbReturn ==
    /\ engine = "dhcp"
    /\ spc.at = "stateCb"
    /\ StackStep(spc.op, Res(dhcp, interface, {}, FALSE, spc.chk, NoAcc),
                 dhcpCheckTimeout(dhcp, settings, now), FALSE)

\* the timeout callback returns: dhcpCheckTimeout takes the mutex again and
\* sets the flag
DhcpTimeoutCbReturn ==
    /\ engine = "dhcp"
    /\ spc.at = "timeoutCb"
    /\ StackStep(spc.op,
                 Res([dhcp EXCEPT !.timeoutEventDone = TRUE], interface, {},
                     FALSE, FALSE, NoAcc),
                 FALSE, FALSE)

Dhcpv6Tick ==
    /\ engine = "dhcpv6"
    /\ spc.at = "idle"
    /\ \E rnd \in Dhcpv6Rnd(dhcpv6) :
          LET r == dhcpv6ClientTick(dhcpv6, interface, now, rnd)
          IN  StackStep("tick", r, dhcpv6CheckTimeout(r.ctx, settings, now),
                        r.changed /\ dhcpv6.state \in {DHCPV6_STATE_INIT,
                                                       DHCPV6_STATE_INIT_CONFIRM})

Dhcpv6Receive ==
    /\ engine = "dhcpv6"
    /\ spc.at = "idle"
    /\ \E message \in Dhcpv6RxMessages :
          IF message.len # "ok"
          THEN UNCHANGED spc /\ StackSkip
          ELSE StackStep("recv",
                         dhcpv6ClientProcessMessage(dhcpv6, interface, message,
                                                    now, settings.rapidCommit),
                         FALSE, FALSE)

Dhcpv6LinkChange ==
    /\ engine = "dhcpv6"
    /\ spc.at = "idle"
    /\ \E up \in BOOLEAN :
          LinkChange(dhcpv6ClientLinkChangeEvent(
                         dhcpv6, [interface EXCEPT !.linkState = up]))

Dhcpv6StateCbReturn ==
    /\ engine = "dhcpv6"
    /\ spc.at = "stateCb"
    /\ StackStep(spc.op, Res(dhcpv6, interface, {}, FALSE, spc.chk, NoAcc),
                 dhcpv6CheckTimeout(dhcpv6, settings, now), FALSE)

Dhcpv6TimeoutCbReturn ==
    /\ engine = "dhcpv6"
    /\ spc.at = "timeoutCb"
    /\ StackStep(spc.op,
                 Res([dhcpv6 EXCEPT !.timeoutEventDone = TRUE], interface, {},
                     FALSE, FALSE, NoAcc),
                 FALSE, FALSE)

\* the link-change callback returns; it ran without the mutex
LinkCbReturn ==
    /\ spc.at = "linkCb"
    /\ spc' = Idle
    /\ StackSkip

SlaacTick ==
    /\ engine = "slaac"
    /\ spc.at = "idle"
    /\ \E delay \in Draw(netGetRandRange(settings.minRtrSolicitationDelay,
                                         settings.maxRtrSolicitationDelay),
                         slaac.state = "LINK_LOCAL_ADDR_DAD") :
          StackStep("tick", slaacTick(slaac, interface, now, settings, delay),
                    FALSE, FALSE)

SlaacLinkChange ==
    /\ engine = "slaac"
    /\ spc.at = "idle"
    /\ \E up \in BOOLEAN :
          LinkChange(slaacLinkChangeEvent(
                         slaac, [interface EXCEPT !.linkState = up]))

\* slaacProcessRouterAdv up to its last early return.  The function never
\* takes the mutex: it reads the state of the context while the user thread
\* may be writing it.
SlaacRouterAdvCheck ==
    /\ engine = "slaac"
    /\ spc.at = "idle"
    /\ \E message \in RouterAdvMessages :
          /\ spc' = IF slaacRouterAdvOk(slaac, message)
                    THEN At("ra", "raCommit", FALSE, message) ELSE Idle
          /\ ev' = Event({}, NoAcc, "stack", mutex, FALSE)
          /\ UNCHANGED <<engine, settings, now, interface, dhcp, dhcpv6, slaac,
                         mutex, lastSentXid, stopReturned, ticksSinceStop,
                         timeoutCount,
                   advertised, probes, firstSent>>

\* slaacProcessRouterAdv from the adoption of the prefix to the end, still
\* without the mutex
SlaacRouterAdvCommit ==
    /\ engine = "slaac"
    /\ spc.at = "raCommit"
    /\ LET r == slaacRouterAdvCommit(slaac, interface, spc.message, now, settings)
       IN  /\ slaac' = r.ctx
           /\ interface' = r.ifc
           /\ spc' = Idle
           /\ ev' = Event({}, NoAcc, "stack", mutex, FALSE)
           /\ probes' = [probes EXCEPT !.global = 0]
           /\ UNCHANGED <<engine, settings, now, dhcp, dhcpv6, mutex,
                          lastSentXid, stopReturned, ticksSinceStop, timeoutCount,
                          advertised, firstSent>>

\* the NDP layer sees a Neighbor Advertisement for a tentative address
NdpDupAddrDetected ==
    /\ engine = "slaac"
    /\ \/ /\ interface.linkLocalAddrState = "Tentative"
          /\ ~interface.linkLocalAddrDup
          /\ interface' = [interface EXCEPT !.linkLocalAddrDup = TRUE]
       \/ /\ interface.globalAddrState = "Tentative"
          /\ ~interface.globalAddrDup
          /\ interface' = [interface EXCEPT !.globalAddrDup = TRUE]
    /\ UNCHANGED spc
    /\ ev' = NoEvent
    /\ UNCHANGED <<engine, settings, now, dhcp, dhcpv6, slaac, mutex,
                   lastSentXid, stopReturned, ticksSinceStop, timeoutCount,
                   advertised, probes, firstSent>>

(***************************************************************************)
(* The user thread: start, stop and getState take the mutex, run and       *)
(* release it.                                                             *)
(***************************************************************************)
UserCall(op, ctx) ==
    /\ mutex = "free"
    /\ mutex' = osReleaseMutex(osAcquireMutex(mutex, "user"))
    /\ SetCtx(ctx)
    /\ ev' = Event({}, NoAcc, "user", osAcquireMutex(mutex, "user"), FALSE)
    /\ stopReturned' = IF op = "stop" THEN TRUE
                       ELSE IF op = "start" THEN FALSE ELSE stopReturned
    /\ ticksSinceStop' = IF op \in {"start", "stop"} THEN 0 ELSE ticksSinceStop
    /\ probes' = IF op = "start" THEN [probes EXCEPT !.failed = FALSE] ELSE probes
    /\ firstSent' = FirstSent(firstSent, dhcpv6, dhcpv6')
    /\ UNCHANGED <<engine, settings, now, interface, spc, lastSentXid,
                   timeoutCount, advertised>>

DhcpStart == engine = "dhcp" /\ UserCall("start", dhcpClientStart(dhcp))

DhcpStop == engine = "dhcp" /\ UserCall("stop", dhcpClientStop(dhcp))

Dhcpv6Start == engine = "dhcpv6" /\ UserCall("start", dhcpv6ClientStart(dhcpv6))

Dhcpv6Stop == engine = "dhcpv6" /\ UserCall("stop", dhcpv6ClientStop(dhcpv6))

SlaacStart == engine = "slaac" /\ UserCall("start", slaacStart(slaac))

SlaacStop == engine = "slaac" /\ UserCall("stop", slaacStop(slaac))

\* dhcpClientGetState, dhcpv6ClientGetState, slaacGetState
GetState ==
    /\ engine \in {"dhcp", "dhcpv6", "slaac"}
    /\ UserCall("getState", EngineCtx)

(***************************************************************************)
(* The clock.                                                              *)
(***************************************************************************)
ClockAdvance ==
    /\ now + ClockStep <= MaxTime
    /\ now' = now + ClockStep
    /\ ev' = NoEvent
    /\ UNCHANGED <<engine, settings, interface, dhcp, dhcpv6, slaac, mutex, spc,
                   lastSentXid, stopReturned, ticksSinceStop, timeoutCount,
                   advertised, probes, firstSent>>

(***************************************************************************)
(* Initial state: the interface is down or up and unconfigured, the engine *)
(* has been initialised with the user's settings and not started.          *)
(***************************************************************************)
NetInterfaceInit(up) ==
    [linkState |-> up, macAddr |-> <<0, 17, 34, 51, 68, 85>>, id |-> 1,
     ipv4Addr |-> IPV4_UNSPECIFIED_ADDR, ipv4AddrState |-> "Invalid",
     subnetMask |-> IPV4_UNSPECIFIED_ADDR,
     defaultGateway |-> IPV4_UNSPECIFIED_ADDR,
     dnsServer |-> IPV4_UNSPECIFIED_ADDR, mtu |-> 1500,
     linkLocalAddr |-> IPV6_UNSPECIFIED_ADDR, linkLocalAddrState |-> "Invalid",
     linkLocalAddrDup |-> FALSE,
     globalAddr |-> IPV6_UNSPECIFIED_ADDR, globalAddrState |-> "Invalid",
     globalAddrDup |-> FALSE, prefix |-> 0, prefixLength |-> 0,
     dnsServer6 |-> IPV6_UNSPECIFIED_ADDR, retransTimer |-> 1000]

Init ==
    /\ engine \in {"dhcp", "dhcpv6", "slaac"}
    /\ settings \in IF engine = "slaac" THEN SlaacSettings ELSE DhcpSettings
    /\ now = 0
    /\ \E up \in BOOLEAN : interface = NetInterfaceInit(up)
    /\ dhcp = dhcpClientInit
    /\ dhcpv6 = dhcpv6ClientInit
    /\ slaac = slaacInit
    /\ mutex = "free"
    /\ spc = Idle
    /\ ev = NoEvent
    /\ lastSentXid = -1
    /\ stopReturned = FALSE
    /\ ticksSinceStop = 0
    /\ timeoutCount = 0
    /\ advertised = NoAdvertised
    /\ probes = NoProbes
    /\ firstSent = <<>>

Next ==
    \/ DhcpTick
    \/ DhcpReceive
    \/ DhcpLinkChange
    \/ DhcpStateCbReturn
    \/ DhcpTimeoutCbReturn
    \/ Dhcpv6Tick
    \/ Dhcpv6Receive
    \/ Dhcpv6LinkChange
    \/ Dhcpv6StateCbReturn
    \/ Dhcpv6TimeoutCbReturn
    \/ LinkCbReturn
    \/ SlaacTick
    \/ SlaacLinkChange
    \/ SlaacRouterAdvCheck
    \/ SlaacRouterAdvCommit
    \/ NdpDupAddrDetected
    \/ DhcpStart
    \/ DhcpStop
    \/ Dhcpv6Start
    \/ Dhcpv6Stop
    \/ SlaacStart
    \/ SlaacStop
    \/ GetState
    \/ ClockAdvance

Spec == Init /\ [][Next]_vars

(***************************************************************************)
(* The DHCPv4 client and a server that answers.  The client has been       *)
(* started on an interface whose link is up and registers no callback.     *)
(* The stack task ticks it, every buffer allocation succeeds, and the      *)
(* DHCPDISCOVER of SELECTING and the DHCPREQUEST of REQUESTING are each     *)
(* answered, before the next tick, by the DHCPOFFER and the DHCPACK of one  *)
(* server; the server is silent once the lease is acknowledged.  The        *)
(* acknowledgment carries any of the Lease Time, T1 and T2 values below.    *)
(***************************************************************************)
\* the clock of this specification stops at LeaseMaxTime ms
LeaseMaxTime == 8000
\* the longest lease, in seconds, that expires within the run of the clock
MaxLease == 3

\* a request of the acquisition is waiting for its answer
LeasePending ==
    /\ ev.sent # {}
    /\ dhcp.state \in {DHCP_STATE_SELECTING, DHCP_STATE_REQUESTING}

\* the answers of the server to the request most recently sent.  The Lease
\* Time of the acknowledgment is MaxLease seconds, 4294968 s (0x00418938, the
\* first whose milliseconds do not fit in 32 bits) or infinite; its T1 is
\* absent, shorter than the lease, longer than the lease, 2147484 s
\* (0x0020C49C, the first whose milliseconds do not fit in 31 bits) or
\* infinite; its T2 is absent, shorter than the lease or infinite
LeaseReplies ==
    IF dhcp.state = DHCP_STATE_SELECTING
    THEN {DhcpMsg(DHCP_MESSAGE_TYPE_OFFER, lastSentXid, 1)}
    ELSE {[DhcpMsg(DHCP_MESSAGE_TYPE_ACK, lastSentXid, dhcp.serverIpAddr)
              EXCEPT !.leaseTime = <<lease>>, !.t1 = t1, !.t2 = t2] :
            lease \in {MaxLease, 4294968, DHCP_INFINITE_TIME},
            t1 \in {NoOpt, <<1>>, <<MaxLease + 2>>, <<2147484>>,
                    <<DHCP_INFINITE_TIME>>},
            t2 \in {NoOpt, <<MaxLease - 1>>, <<DHCP_INFINITE_TIME>>}}

\* dhcpClientTick with every buffer allocation succeeding
LeaseTick ==
    /\ engine = "dhcp"
    /\ spc.at = "idle"
    /\ ~LeasePending
    /\ \E rnd \in {[x EXCEPT !.alloc = TRUE] : x \in DhcpRnd(dhcp)} :
          LET r == dhcpClientTick(dhcp, interface, now, rnd)
          IN  StackStep("tick", r, dhcpCheckTimeout(r.ctx, settings, now),
                        r.changed /\ dhcp.state \in {DHCP_STATE_INIT,
                                                     DHCP_STATE_INIT_REBOOT})

\* dhcpClientProcessMessage on the answer of the server
LeaseServer ==
    /\ engine = "dhcp"
    /\ spc.at = "idle"
    /\ LeasePending
    /\ \E message \in LeaseReplies :
          StackStep("recv",
                    dhcpClientProcessMessage(dhcp, interface, message, now,
                                             settings.manualDnsConfig),
                    FALSE, FALSE)

\* the tick period is shorter than a step of the clock: the clock advances
\* once the tick has nothing left to do at the current time
LeaseClock ==
    /\ ~LeasePending
    /\ \A rnd \in DhcpRnd(dhcp) :
          dhcpClientTick(dhcp, interface, now, rnd).ctx = dhcp
    /\ now + ClockStep <= LeaseMaxTime
    /\ now' = now + ClockStep
    /\ ev' = NoEvent
    /\ UNCHANGED <<engine, settings, interface, dhcp, dhcpv6, slaac, mutex, spc,
                   lastSentXid, stopReturned, ticksSinceStop, timeoutCount,
                   advertised, probes, firstSent>>

LeaseInit ==
    /\ engine = "dhcp"
    /\ settings \in {stg \in DhcpSettings : ~stg.stateChangeEvent}
    /\ now = 0
    /\ interface = NetInterfaceInit(TRUE)
    /\ dhcp = dhcpClientStart(dhcpClientInit)
    /\ dhcpv6 = dhcpv6ClientInit
    /\ slaac = slaacInit
    /\ mutex = "free"
    /\ spc = Idle
    /\ ev = NoEvent
    /\ lastSentXid = -1
    /\ stopReturned = FALSE
    /\ ticksSinceStop = 0
    /\ timeoutCount = 0
    /\ advertised = NoAdvertised
    /\ probes = NoProbes
    /\ firstSent = <<>>

LeaseNext ==
    \/ LeaseTick
    \/ LeaseServer
    \/ LeaseClock

\* the stack task keeps ticking, the answer of the server arrives and the
\* clock runs on up to LeaseMaxTime
LeaseSpec ==
    /\ LeaseInit
    /\ [][LeaseNext]_vars
    /\ WF_vars(LeaseTick)
    /\ WF_vars(LeaseServer)
    /\ WF_vars(LeaseClock)

(***************************************************************************)
(* The transmission series: a DHCPv4 or DHCPv6 client that is ticked on    *)
(* time, with every buffer allocation succeeding, in front of a server     *)
(* that answers at most the first message of each exchange of the first    *)
(* configuration and then goes silent.                                     *)
(***************************************************************************)
\* the run of the clock, in milliseconds
RetxMaxTime == 1010000
\* the server is heard up to this time
RetxAnswerBy == 2000
\* the lease, in seconds, of a well-behaved server
RetxLease == 1000
\* the transmissions of one series that are followed
RetxMaxCount == 11

\* the Lease Time of the acknowledgment: RetxLease, 4294968 s (the first whose
\* milliseconds do not fit in 32 bits), 613566757 s (0x24924925, the first
\* whose sevenfold does not fit in 32 bits), 0xFFFFFFFE and infinite
RetxLeases == {RetxLease, 4294968, 613566757, -2, DHCP_INFINITE_TIME}

\* the first message of an exchange has just been sent and the server is heard
RetxPending ==
    /\ ev.sent # {}
    /\ now <= RetxAnswerBy
    /\ \/ engine = "dhcp" /\ dhcp.retransmitCount = 1
       \/ engine = "dhcpv6" /\ dhcpv6.retransmitCount = 1

\* the IA_NA option of the Reply: T1, T2, preferred and valid lifetime in
\* seconds; T1 or T2 left to the client (0), T2 below the derived T1, T2
\* beyond the valid lifetime, and two options the client must discard
RetxIaNas ==
    {[IaNa EXCEPT !.t1 = v[1], !.t2 = v[2],
                  !.iaAddr = <<[@[1] EXCEPT !.preferredLifetime = v[3],
                                            !.validLifetime = v[4]]>>] :
        v \in {<<20, 60, 70, RetxLease \div 10>>,
               <<0, 0, 70, RetxLease \div 10>>,
               <<0, 5, 70, RetxLease \div 10>>,
               <<20, 0, 10, 25>>,
               <<20, 200, 70, RetxLease \div 10>>,
               <<60, 20, 70, RetxLease \div 10>>,
               <<20, 60, 70, 65>>}}

\* Replies with several IA_NA options, the first of which fails parsing for
\* its IAID, its timers, its missing address or its length, before the other
\* options of the message or after the two identifiers
RetxIaNaLists ==
    LET good == [IaNa EXCEPT !.t1 = 20, !.t2 = 60,
                             !.iaAddr = <<[@[1] EXCEPT !.preferredLifetime = 70,
                                                      !.validLifetime = 100]>>]
        other == [good EXCEPT !.iaAddr[1].address.id = <<0, 0, 0, 0, 0, 0, 0, 21>>]
    IN  {<<[good EXCEPT !.iaId = 2], good>>,
         <<[good EXCEPT !.t1 = 60, !.t2 = 20], good, other>>,
         <<[good EXCEPT !.iaAddr = NoOpt], good>>,
         <<[good EXCEPT !.short = TRUE], good>>,
         <<good, other>>}

\* the answers of the server: an Offer to a Discover, an Ack without T1 and T2
\* options to the Request that follows, an Advertise to a Solicit, a Reply to
\* the Request that follows, and nothing to any other message
RetxReplies ==
    IF engine = "dhcp"
    THEN IF dhcp.state = DHCP_STATE_SELECTING
         THEN {DhcpMsg(DHCP_MESSAGE_TYPE_OFFER, lastSentXid, 1)}
         ELSE IF dhcp.state = DHCP_STATE_REQUESTING
         THEN {[DhcpMsg(DHCP_MESSAGE_TYPE_ACK, lastSentXid, dhcp.serverIpAddr)
                   EXCEPT !.leaseTime = <<lease>>, !.t1 = NoOpt, !.t2 = NoOpt] :
                 lease \in RetxLeases}
         ELSE {}
    ELSE IF dhcpv6.state = DHCPV6_STATE_SOLICIT
    THEN {Dhcpv6Msg(DHCPV6_MSG_TYPE_ADVERTISE, lastSentXid, "s1", NoOpt)}
    ELSE IF dhcpv6.state = DHCPV6_STATE_REQUEST
    THEN {[Dhcpv6Msg(DHCPV6_MSG_TYPE_REPLY, lastSentXid, "s1", NoOpt)
              EXCEPT !.iaNa = <<ia>>] : ia \in RetxIaNas}
         \cup {[Dhcpv6Msg(DHCPV6_MSG_TYPE_REPLY, lastSentXid, "s1", NoOpt)
                  EXCEPT !.iaNa = list, !.iaNaFirst = first] :
                  list \in RetxIaNaLists, first \in BOOLEAN}
    ELSE {}

\* the run is over once the client is back in INIT, or once a series has
\* made RetxMaxCount transmissions
RetxOver ==
    \/ engine = "dhcp" /\ now > 0 /\ dhcp.state = DHCP_STATE_INIT
    \/ engine = "dhcpv6" /\ now > 0 /\ dhcpv6.state = DHCPV6_STATE_INIT
    \/ engine = "dhcp" /\ dhcp.retransmitCount >= RetxMaxCount
    \/ engine = "dhcpv6" /\ dhcpv6.retransmitCount >= RetxMaxCount

\* dhcpClientTick with every buffer allocation succeeding
RetxTick ==
    /\ engine = "dhcp"
    /\ spc.at = "idle"
    /\ ~RetxOver
    /\ \E rnd \in {[x EXCEPT !.alloc = TRUE] : x \in DhcpRnd(dhcp)} :
          LET r == dhcpClientTick(dhcp, interface, now, rnd)
          IN  StackStep("tick", r, dhcpCheckTimeout(r.ctx, settings, now),
                        r.changed /\ dhcp.state \in {DHCP_STATE_INIT,
                                                     DHCP_STATE_INIT_REBOOT})

\* dhcpv6ClientTick with every buffer allocation succeeding
RetxTick6 ==
    /\ engine = "dhcpv6"
    /\ spc.at = "idle"
    /\ ~RetxOver
    /\ \E rnd \in {[x EXCEPT !.alloc = TRUE] : x \in Dhcpv6Rnd(dhcpv6)} :
          LET r == dhcpv6ClientTick(dhcpv6, interface, now, rnd)
          IN  StackStep("tick", r, dhcpv6CheckTimeout(r.ctx, settings, now),
                        r.changed /\ dhcpv6.state \in {DHCPV6_STATE_INIT,
                                                       DHCPV6_STATE_INIT_CONFIRM})

\* dhcpClientProcessMessage or dhcpv6ClientProcessMessage on the answer of the
\* server
RetxServer ==
    /\ spc.at = "idle"
    /\ RetxPending
    /\ \E message \in RetxReplies :
          StackStep("recv",
                    IF engine = "dhcp"
                    THEN dhcpClientProcessMessage(dhcp, interface, message, now,
                                                  settings.manualDnsConfig)
                    ELSE dhcpv6ClientProcessMessage(dhcpv6, interface, message,
                                                    now, settings.rapidCommit),
                    FALSE, FALSE)

\* the link is reported up again right after the lease was acknowledged
RetxLinkChange ==
    /\ spc.at = "idle"
    /\ IF engine = "dhcp"
       THEN /\ dhcp.state = DHCP_STATE_BOUND
            /\ ev.acc.type = "ACK"
            /\ LinkChange(dhcpClientLinkChangeEvent(dhcp, interface))
       ELSE /\ dhcpv6.state = DHCPV6_STATE_BOUND
            /\ ev.acc.type = "REPLY"
            /\ LinkChange(dhcpv6ClientLinkChangeEvent(dhcpv6, interface))

\* the times at which a timer of the client runs out
RetxDeadlines ==
    IF engine = "dhcp"
    THEN {Add32(dhcp.timestamp, dhcp.timeout)}
         \cup {Add32(dhcp.leaseStartTime, Mul32(t, 1000)) :
                 t \in {dhcp.t1, dhcp.t2, dhcp.leaseTime}}
    ELSE {dhcpv6.timestamp + dhcpv6.timeout}
         \cup {dhcpv6.leaseStartTime + t * 1000 :
                 t \in {dhcpv6.t1, dhcpv6.t2, dhcpv6.validLifetime}}
         \cup {dhcpv6.exchangeStartTime + DHCPV6_CLIENT_CNF_MAX_RD}

\* the tick period is short: the clock advances to the next time at which a
\* timer runs out, once the tick has nothing left to do at the current time
RetxClock ==
    /\ ~RetxOver
    /\ IF engine = "dhcp"
       THEN \A rnd \in DhcpRnd(dhcp) :
               dhcpClientTick(dhcp, interface, now, rnd).ctx = dhcp
       ELSE \A rnd \in Dhcpv6Rnd(dhcpv6) :
               dhcpv6ClientTick(dhcpv6, interface, now, rnd).ctx = dhcpv6
    /\ \E t \in RetxDeadlines :
          /\ t > now
          /\ t <= RetxMaxTime
          /\ \A u \in RetxDeadlines : u > now => t <= u
          /\ now' = t
    /\ ev' = NoEvent
    /\ UNCHANGED <<engine, settings, interface, dhcp, dhcpv6, slaac, mutex, spc,
                   lastSentXid, stopReturned, ticksSinceStop, timeoutCount,
                   advertised, probes, firstSent>>

RetxInit ==
    /\ engine \in {"dhcp", "dhcpv6"}
    /\ settings \in {stg \in DhcpSettings : ~stg.stateChangeEvent}
    /\ now = 0
    /\ interface = NetInterfaceInit(TRUE)
    /\ dhcp = IF engine = "dhcp" THEN dhcpClientStart(dhcpClientInit)
              ELSE dhcpClientInit
    /\ dhcpv6 = IF engine = "dhcpv6" THEN dhcpv6ClientStart(dhcpv6ClientInit)
                ELSE dhcpv6ClientInit
    /\ slaac = slaacInit
    /\ mutex = "free"
    /\ spc = Idle
    /\ ev = NoEvent
    /\ lastSentXid = -1
    /\ stopReturned = FALSE
    /\ ticksSinceStop = 0
    /\ timeoutCount = 0
    /\ advertised = NoAdvertised
    /\ probes = NoProbes
    /\ firstSent = <<>>

RetxNext ==
    \/ RetxTick
    \/ RetxTick6
    \/ RetxServer
    \/ RetxLinkChange
    \/ RetxClock

RetxSpec == RetxInit /\ [][RetxNext]_vars

(***************************************************************************)
(* SLAAC and the DHCPv6 client started on the same interface.  Their       *)
(* handlers run one after the other on the stack task; engine is the       *)
(* engine whose handlers the task runs next.  The server answers the       *)
(* first Solicit and the first Request and is silent afterwards.           *)
(***************************************************************************)
DualMaxTime == 4000

DualReplies ==
    IF dhcpv6.state = DHCPV6_STATE_SOLICIT
    THEN {Dhcpv6Msg(DHCPV6_MSG_TYPE_ADVERTISE, lastSentXid, "s1", NoOpt)}
    ELSE IF dhcpv6.state = DHCPV6_STATE_REQUEST
    THEN {Dhcpv6Msg(DHCPV6_MSG_TYPE_REPLY, lastSentXid, "s1", NoOpt)}
    ELSE {}

\* the stack task turns to the handlers of the other engine
DualSwitch ==
    /\ spc.at = "idle"
    /\ engine' = IF engine = "slaac" THEN "dhcpv6" ELSE "slaac"
    /\ ev' = NoEvent
    /\ UNCHANGED <<settings, now, interface, dhcp, dhcpv6, slaac, mutex, spc,
                   lastSentXid, stopReturned, ticksSinceStop, timeoutCount,
                   advertised, probes, firstSent>>

\* dhcpv6ClientTick with every buffer allocation succeeding
DualTick6 ==
    /\ engine = "dhcpv6"
    /\ spc.at = "idle"
    /\ \E rnd \in {[x EXCEPT !.alloc = TRUE] : x \in Dhcpv6Rnd(dhcpv6)} :
          StackStep("tick", dhcpv6ClientTick(dhcpv6, interface, now, rnd),
                    FALSE, FALSE)

\* an answer of the server to the message last sent is processed
DualServer ==
    /\ engine = "dhcpv6"
    /\ spc.at = "idle"
    /\ ev.sent # {}
    /\ \E message \in DualReplies :
          StackStep("recv",
                    dhcpv6ClientProcessMessage(dhcpv6, interface, message, now,
                                               settings.rapidCommit),
                    FALSE, FALSE)

DualClock ==
    /\ spc.at = "idle"
    /\ now + ClockStep <= DualMaxTime
    /\ now' = now + ClockStep
    /\ ev' = NoEvent
    /\ UNCHANGED <<engine, settings, interface, dhcp, dhcpv6, slaac, mutex, spc,
                   lastSentXid, stopReturned, ticksSinceStop, timeoutCount,
                   advertised, probes, firstSent>>

DualInit ==
    /\ engine \in {"slaac", "dhcpv6"}
    /\ settings \in SlaacSettings
    /\ now = 0
    /\ interface = NetInterfaceInit(TRUE)
    /\ dhcp = dhcpClientInit
    /\ dhcpv6 = dhcpv6ClientStart(dhcpv6ClientInit)
    /\ slaac = slaacStart(slaacInit)
    /\ mutex = "free"
    /\ spc = Idle
    /\ ev = NoEvent
    /\ lastSentXid = -1
    /\ stopReturned = FALSE
    /\ ticksSinceStop = 0
    /\ timeoutCount = 0
    /\ advertised = NoAdvertised
    /\ probes = NoProbes
    /\ firstSent = <<>>

DualNext ==
    \/ SlaacTick
    \/ SlaacRouterAdvCheck
    \/ SlaacRouterAdvCommit
    \/ DualTick6
    \/ DualServer
    \/ DualSwitch
    \/ DualClock

DualSpec == DualInit /\ [][DualNext]_vars

(***************************************************************************)
(* Properties.                                                             *)
(***************************************************************************)
LeaseStates == {DHCP_STATE_BOUND, DHCP_STATE_RENEWING, DHCP_STATE_REBINDING}

CallbackPoints == {"stateCb", "timeoutCb", "linkCb"}

\* state values outside the cases of the switch of dhcpClientTick
DhcpUnrecognised == {DHCP_STATE_REBINDING + 1, DHCP_STATE_REBINDING + 2}

\* state values outside the cases of the switch of dhcpv6ClientTick
Dhcpv6Unrecognised == {DHCPV6_STATE_DECLINE, DHCPV6_STATE_DECLINE + 1}

\* C1: whatever the interleaving of tick, onReceive, start, stop, getState
\* and onLinkChange, the state of each engine is a member of its enumerated
\* set of states, and a tick of DHCPv4 or DHCPv6 that finds a state value it
\* does not recognise leaves the state at INIT.
C1_StateInEnumeratedSet ==
    /\ dhcp.state \in DhcpStates
    /\ dhcpv6.state \in Dhcpv6States
    /\ slaac.state \in SlaacStates
    /\ \A v \in DhcpUnrecognised :
          LET c == [dhcp EXCEPT !.state = v]
          IN  \A rnd \in DhcpRnd(c) :
                 dhcpClientTick(c, interface, now, rnd).ctx.state = DHCP_STATE_INIT
    /\ \A v \in Dhcpv6Unrecognised :
          LET c == [dhcpv6 EXCEPT !.state = v]
          IN  \A rnd \in Dhcpv6Rnd(c) :
                 dhcpv6ClientTick(c, interface, now, rnd).ctx.state
                     = DHCPV6_STATE_INIT

\* an onReceive of DHCPv4 has returned after committing a lease, with a
\* context on which the tick would still reset unrecognised values
C1_Witness ==
    /\ engine = "dhcp"
    /\ spc.at = "idle"
    /\ ev.acc.type = "ACK"
    /\ dhcp.state = DHCP_STATE_BOUND
    /\ dhcp.running

\* C2: whenever no operation of the DHCPv4 client is in progress and its state
\* is none of BOUND, RENEWING, REBINDING, the IPv4 host address of the
\* interface is Invalid.
C2_AddrInvalidOutsideLease ==
    (engine = "dhcp" /\ spc.at = "idle" /\ dhcp.state \notin LeaseStates)
        => interface.ipv4AddrState = "Invalid"

\* C3: an engine that is not running emits no datagram, whatever the
\* interleaving of start and stop with tick, onReceive, Router Advertisement
\* processing and onLinkChange.
C3_NoDatagramWhenStopped ==
    ev.sent # {} => EngineRunning

\* C4: once stop has returned and one further tick has completed, no later
\* tick changes the state of the engine until start is called.
C4_QuiescentAfterStop ==
    [][(stopReturned /\ ticksSinceStop = 1) => ~ev'.tickChanged]_vars

\* C5: after stop has returned the engine enters no state-change and no
\* timeout callback, and no link-change callback for a notification that
\* began after stop.
C5_NoCallbackAfterStop ==
    [][stopReturned => ~(spc'.at \in CallbackPoints /\ spc'.at # spc.at)]_vars

\* C6: every public operation of every engine (tick, onReceive and the Router
\* Advertisement handler of SLAAC, start, stop, getState, onLinkChange) holds
\* the engine mutex whenever it reads or writes the context.
C6_EveryOperationLocks ==
    ev.locked

\* C7: while a user callback executes the invoking thread does not hold the
\* engine mutex, every public operation returns with the mutex released, and
\* the code that follows the return of a state-change or timeout callback
\* runs with the mutex held again.
C7_CallbackWithoutMutex ==
    /\ [](mutex = "free")
    /\ [][(spc.at \in {"stateCb", "timeoutCb"} /\ spc' # spc) => ev'.locked]_vars

\* the stack task is inside the state-change callback of a tick that still
\* has to run CheckTimeout
C7_Witness ==
    /\ spc.at = "stateCb"
    /\ spc.op = "tick"
    /\ spc.chk
    /\ mutex = "free"

\* the lease of the DHCPv4 client as onReceive and the other operations see it
DhcpLease ==
    <<dhcp.leaseStartTime, dhcp.leaseTime, dhcp.t1, dhcp.t2>>

\* the lease of the DHCPv6 client
Dhcpv6Lease ==
    <<dhcpv6.leaseStartTime, dhcpv6.clientAddr, dhcpv6.t1, dhcpv6.t2,
      dhcpv6.preferredLifetime, dhcpv6.validLifetime>>

\* C8: the commit made on an accepted DHCPv4 Ack or DHCPv6 Reply is one step
\* taken under the mutex: the step that accepts the reply sets the address
\* Valid, the lease start, T1, T2, the lifetimes and the state BOUND together,
\* and no other step writes the lease, validates the address or enters BOUND.
C8_AtomicCommit ==
    [][/\ engine = "dhcp" =>
            IF ev'.acc.type = "ACK"
            THEN /\ ev'.locked
                 /\ interface'.ipv4AddrState = "Valid"
                 /\ dhcp'.leaseStartTime = now
                 /\ dhcp'.leaseTime > 0
                 /\ dhcp'.t1 <= dhcp'.t2 /\ dhcp'.t2 <= dhcp'.leaseTime
                 /\ dhcp'.state = DHCP_STATE_BOUND
            ELSE /\ DhcpLease' = DhcpLease
                 /\ interface'.ipv4AddrState = "Valid"
                        => interface.ipv4AddrState = "Valid"
                 /\ dhcp'.state = DHCP_STATE_BOUND
                        => dhcp.state = DHCP_STATE_BOUND
       /\ engine = "dhcpv6" =>
            IF ev'.acc.type = "REPLY"
            THEN /\ ev'.locked
                 /\ interface'.globalAddrState = "Valid"
                 /\ interface'.globalAddr = dhcpv6'.clientAddr
                 /\ dhcpv6'.leaseStartTime = now
                 /\ dhcpv6'.t1 <= dhcpv6'.t2
                 /\ dhcpv6'.preferredLifetime <= dhcpv6'.validLifetime
                 /\ dhcpv6'.validLifetime > 0
                 /\ dhcpv6'.state = DHCPV6_STATE_BOUND
            ELSE /\ Dhcpv6Lease' = Dhcpv6Lease
                 /\ interface'.globalAddrState = "Valid"
                        => interface.globalAddrState = "Valid"
                 /\ dhcpv6'.state = DHCPV6_STATE_BOUND
                        => dhcpv6.state = DHCPV6_STATE_BOUND]_vars

\* onReceive of DHCPv6 has just committed the lease of an accepted Reply
C8_Witness ==
    /\ engine = "dhcpv6"
    /\ ev.acc.type = "REPLY"
    /\ dhcpv6.state = DHCPV6_STATE_BOUND
    /\ interface.globalAddrState = "Valid"
    /\ dhcpv6.leaseStartTime = now

\* C9: within one acquisition attempt of DHCPv4 or DHCPv6 the timeout
\* callback is invoked at most once, and only when at least settings.timeout
\* has elapsed since the start of the attempt.
C9_TimeoutOncePerAttempt ==
    /\ timeoutCount <= 1
    /\ (engine # "slaac" /\ spc.at = "timeoutCb") =>
          /\ settings.timeoutEvent
          /\ timeCompare(now, EngineCtx.configStartTime) >= settings.timeout

\* the timeout callback of the attempt is executing
C9_Witness ==
    /\ engine # "slaac"
    /\ spc.at = "timeoutCb"
    /\ timeoutCount = 1
    /\ ~EngineCtx.timeoutEventDone

\* C10: every reply a DHCP client accepts (Offer, Ack, Nak, Advertise, Reply)
\* carries the transaction identifier of the request the client most
\* recently sent.
C10_AcceptedXidIsLastSent ==
    ev.acc.type # "none" => ev.acc.xid = lastSentXid

\* secs seconds, a 32-bit number of seconds, have elapsed since the lease was
\* acknowledged: now - leaseStartTime >= secs * 1000 without wrapping
LeaseReached(secs) ==
    secs >= 0 /\ (now - dhcp.leaseStartTime) \div 1000 >= secs

\* C11: for every accepted DHCPv4 Ack, whatever the Lease Time, T1 and T2
\* options carry, the recorded timers satisfy T1 <= T2 <= leaseTime, or
\* leaseTime is 0xFFFFFFFF and then T1 and T2 are 0xFFFFFFFF too.
C11_TimersOrdered ==
    ev.acc.type = "ACK" =>
        \/ /\ dhcp.leaseTime = DHCP_INFINITE_TIME
           /\ dhcp.t1 = DHCP_INFINITE_TIME
           /\ dhcp.t2 = DHCP_INFINITE_TIME
        \/ /\ dhcp.leaseTime # DHCP_INFINITE_TIME
           /\ ULeq(dhcp.t1, dhcp.t2)
           /\ ULeq(dhcp.t2, dhcp.leaseTime)

\* C12: the value 0xFFFFFFFF never fires: with T1 = 0xFFFFFFFF the client
\* does not leave BOUND for RENEWING, with T2 = 0xFFFFFFFF it does not leave
\* RENEWING for REBINDING, and with leaseTime = 0xFFFFFFFF the lease does not
\* expire in REBINDING.
C12_InfiniteNeverFires ==
    [][/\ (dhcp.state = DHCP_STATE_BOUND /\ dhcp.t1 = DHCP_INFINITE_TIME)
            => dhcp'.state # DHCP_STATE_RENEWING
       /\ (dhcp.state = DHCP_STATE_RENEWING /\ dhcp.t2 = DHCP_INFINITE_TIME)
            => dhcp'.state # DHCP_STATE_REBINDING
       /\ (dhcp.state = DHCP_STATE_REBINDING
              /\ dhcp.leaseTime = DHCP_INFINITE_TIME)
            => /\ dhcp'.state = DHCP_STATE_REBINDING
               /\ interface'.ipv4AddrState = interface.ipv4AddrState]_vars

\* C13: for every finite T1 and T2, a tick in BOUND enters RENEWING exactly
\* when T1 * 1000 ms have elapsed since leaseStart, and a tick in RENEWING
\* enters REBINDING exactly when T2 * 1000 ms have elapsed: on the first such
\* tick and on no earlier one.
C13_TimersFireOnTime ==
    [][LeaseTick =>
          /\ (dhcp.state = DHCP_STATE_BOUND /\ dhcp.t1 # DHCP_INFINITE_TIME)
                => (dhcp'.state = DHCP_STATE_RENEWING <=> LeaseReached(dhcp.t1))
          /\ (dhcp.state = DHCP_STATE_RENEWING /\ dhcp.t2 # DHCP_INFINITE_TIME)
                => (dhcp'.state = DHCP_STATE_REBINDING
                        <=> LeaseReached(dhcp.t2))]_vars

\* the states in which the DHCPv4 client takes an Ack or a Nak
DhcpAckStates ==
    {DHCP_STATE_REQUESTING, DHCP_STATE_REBOOTING, DHCP_STATE_RENEWING,
     DHCP_STATE_REBINDING}

\* onReceive of the DHCPv4 client runs on the given datagram
DhcpReceives(message) ==
    /\ engine = "dhcp"
    /\ spc.at = "idle"
    /\ message.len = "ok"
    /\ StackStep("recv",
                 dhcpClientProcessMessage(dhcp, interface, message, now,
                                          settings.manualDnsConfig),
                 FALSE, FALSE)

\* C14: when the DHCPv4 client accepts an Ack in REQUESTING, REBOOTING,
\* RENEWING or REBINDING, then on return of onReceive the host address is the
\* Ack's yiaddr in the Valid state, the subnet mask, the first router, the MTU
\* and the DNS server the Ack carries are applied, leaseStart is the time of
\* acceptance and the state is BOUND; with manual-dns-config the DNS server of
\* the interface is unchanged.
C14_AckApplied ==
    [][(engine = "dhcp" /\ dhcp.state \in DhcpAckStates /\ ev'.acc.type = "ACK")
          => \A message \in DhcpRxMessages :
                DhcpReceives(message) =>
                   /\ interface'.ipv4Addr = message.yiaddr
                   /\ interface'.ipv4AddrState = "Valid"
                   /\ OptOk(message.subnetMask)
                         => interface'.subnetMask = message.subnetMask[1]
                   /\ Len(message.router) >= 1
                         => interface'.defaultGateway = message.router[1]
                   /\ OptOk(message.mtu) => interface'.mtu = message.mtu[1]
                   /\ IF settings.manualDnsConfig
                      THEN interface'.dnsServer = interface.dnsServer
                      ELSE Len(message.dns) >= 1
                              => interface'.dnsServer = message.dns[1]
                   /\ dhcp'.leaseStartTime = now
                   /\ dhcp'.state = DHCP_STATE_BOUND]_vars

\* an Ack with every option has just been accepted by a client whose DNS
\* servers are set by hand
C14_Witness ==
    /\ engine = "dhcp"
    /\ ev.acc.type = "ACK"
    /\ settings.manualDnsConfig
    /\ dhcp.state = DHCP_STATE_BOUND
    /\ dhcp.leaseStartTime = now
    /\ interface.ipv4AddrState = "Valid"
    /\ interface.ipv4Addr = DhcpMsg(DHCP_MESSAGE_TYPE_ACK, ev.acc.xid, 1).yiaddr
    /\ interface.subnetMask = 255
    /\ interface.defaultGateway = 1
    /\ interface.mtu = 576
    /\ interface.dnsServer = IPV4_UNSPECIFIED_ADDR

\* C15: a Nak that passes the header validation (op, htype, hlen, xid, chaddr,
\* magic cookie, Message Type) and arrives while the DHCPv4 client is in
\* REQUESTING, REBOOTING, RENEWING or REBINDING sets the IPv4 address of the
\* interface Invalid and moves the client to INIT.
C15_NakResets ==
    [][(engine = "dhcp" /\ dhcp.state \in DhcpAckStates)
          => \A message \in DhcpRxMessages :
                (/\ dhcpHeaderOk(dhcp, message)
                 /\ dhcpTrailerOk(message)
                 /\ message.msgType = <<DHCP_MESSAGE_TYPE_NAK>>
                 /\ DhcpReceives(message))
                => /\ interface'.ipv4AddrState = "Invalid"
                   /\ dhcp'.state = DHCP_STATE_INIT]_vars

\* a Nak has just ended the lease of a client
C15_Witness ==
    /\ engine = "dhcp"
    /\ ev.acc.type = "NAK"
    /\ dhcp.state = DHCP_STATE_INIT
    /\ dhcp.leaseTime # 0
    /\ dhcp.running
    /\ interface.ipv4AddrState = "Invalid"
    /\ interface.ipv4Addr = IPV4_UNSPECIFIED_ADDR

\* C16: onLinkChange of the DHCPv4 client: when the client is running the
\* IPv4 address of the interface becomes Invalid and the subnet mask is
\* cleared, when it is not running the address is left as it is; the state
\* after the call is INIT-REBOOT when the state before was INIT-REBOOT,
\* REBOOTING, BOUND, RENEWING or REBINDING, and INIT otherwise.
C16_LinkChange ==
    [][DhcpLinkChange =>
          /\ IF dhcp.running
             THEN /\ interface'.ipv4AddrState = "Invalid"
                  /\ interface'.subnetMask = IPV4_UNSPECIFIED_ADDR
             ELSE /\ interface'.ipv4Addr = interface.ipv4Addr
                  /\ interface'.ipv4AddrState = interface.ipv4AddrState
          /\ dhcp'.state =
                IF dhcp.state \in {DHCP_STATE_INIT_REBOOT, DHCP_STATE_REBOOTING,
                                   DHCP_STATE_BOUND, DHCP_STATE_RENEWING,
                                   DHCP_STATE_REBINDING}
                THEN DHCP_STATE_INIT_REBOOT
                ELSE DHCP_STATE_INIT]_vars

\* the link of a running client that held a lease has changed, and its
\* link-change callback is executing
C16_Witness ==
    /\ engine = "dhcp"
    /\ spc.at = "linkCb"
    /\ dhcp.running
    /\ dhcp.leaseTime # 0
    /\ dhcp.state = DHCP_STATE_INIT_REBOOT
    /\ interface.ipv4AddrState = "Invalid"
    /\ interface.subnetMask = IPV4_UNSPECIFIED_ADDR

\* C19: a received DHCPv4 or DHCPv6 message that fails a validation check
\* (length, magic cookie, xid, hardware address, DUID, option length, option
\* value, status code) is dropped: no field of the client context and nothing
\* of the interface configuration changes.
C19_InvalidMessageDropped ==
    [][((DhcpReceive \/ Dhcpv6Receive) /\ ev'.acc.type = "none")
          => UNCHANGED <<dhcp, dhcpv6, interface>>]_vars

\* C20: when a send fails because no buffer can be allocated the engine does
\* not advance: a tick of DHCPv4 or DHCPv6 that hands no datagram of the
\* client to UDP and stays in its state leaves the retransmission count and
\* the retransmission timeout as they were, so that the next retransmit tick
\* attempts the same message.
C20_SendFailureNoAdvance ==
    [][/\ (DhcpTick /\ ev'.sent = {} /\ dhcp'.state = dhcp.state)
            => /\ dhcp'.retransmitCount = dhcp.retransmitCount
               /\ dhcp'.retransmitTimeout = dhcp.retransmitTimeout
               /\ dhcp'.timeout = dhcp.timeout
       /\ (Dhcpv6Tick /\ ev'.sent \subseteq RouterSol
                /\ dhcpv6'.state = dhcpv6.state)
            => /\ dhcpv6'.retransmitCount = dhcpv6.retransmitCount
               /\ dhcpv6'.timeout = dhcpv6.timeout]_vars

\* C21: whenever the DHCPv6 client moves from SOLICIT to REQUEST, the server
\* DUID it has recorded, which is the one it puts in its Request, is the
\* Server-Id of an accepted Advertise whose Preference is the highest among
\* all Advertises accepted during that Solicit exchange.
C21_BestAdvertiseChosen ==
    [][engine = "dhcpv6" =>
          /\ (dhcpv6.state = DHCPV6_STATE_SOLICIT
                 /\ dhcpv6'.state = DHCPV6_STATE_REQUEST)
                => dhcpv6'.serverId \in advertised'.servers
          /\ \A d \in ev'.sent :
                d.type = "REQUEST" => d.server[1] \in advertised'.servers]_vars

\* C22: when manual-dns-config is set in the DHCPv6 client settings, accepting
\* a Reply never changes the DNS server list of the interface; the DNS Servers
\* option of a Reply is applied only when manual-dns-config is not set.
C22_ManualDnsKept ==
    [][(Dhcpv6Receive /\ ev'.acc.type = "REPLY" /\ settings.manualDnsConfig)
          => interface'.dnsServer6 = interface.dnsServer6]_vars

\* C24 as stated: every Renew the DHCPv6 client sends while in RENEW is
\* addressed to the unicast address of the recorded server, not to a multicast
\* group, whereas every Rebind sent in REBIND is addressed to ff02::1:2.
C24_RenewUnicast ==
    [][engine = "dhcpv6" =>
          \A d \in ev'.sent :
             /\ d.type = "RENEW"
                   => d.dest # DHCPV6_ALL_RELAY_AGENTS_AND_SERVERS_ADDR
             /\ d.type = "REBIND"
                   => d.dest = DHCPV6_ALL_RELAY_AGENTS_AND_SERVERS_ADDR]_vars

\* C24, amended: every Renew the DHCPv6 client sends while in RENEW is
\* addressed to the multicast group ff02::1:2 and names the recorded server in
\* its Server Identifier option, whereas every Rebind sent in REBIND is
\* addressed to ff02::1:2.
C24_RenewMulticast ==
    [][engine = "dhcpv6" =>
          \A d \in ev'.sent :
             /\ d.type = "RENEW"
                   => /\ dhcpv6.state = DHCPV6_STATE_RENEW
                      /\ d.dest = DHCPV6_ALL_RELAY_AGENTS_AND_SERVERS_ADDR
                      /\ d.server = <<dhcpv6.serverId>>
             /\ d.type = "REBIND"
                   => /\ dhcpv6.state = DHCPV6_STATE_REBIND
                      /\ d.dest = DHCPV6_ALL_RELAY_AGENTS_AND_SERVERS_ADDR]_vars

\* a Renew has just been sent to the group, naming the recorded server
C24_Witness ==
    /\ engine = "dhcpv6"
    /\ dhcpv6.state = DHCPV6_STATE_RENEW
    /\ \E d \in ev.sent :
          /\ d.type = "RENEW"
          /\ d.dest = DHCPV6_ALL_RELAY_AGENTS_AND_SERVERS_ADDR
          /\ d.server = <<dhcpv6.serverId>>

\* C25: SLAAC sets the link-local (respectively global) address to Preferred,
\* and then emits Router Solicitations (respectively enters CONFIGURED), only
\* after it has sent dupAddrDetectTransmits Neighbor Solicitations for that
\* address and the duplicate flag of the interface was clear at the check; if
\* the duplicate flag is set at a check during link-local DAD, the address is
\* set to Invalid, the state becomes DAD-FAILURE, and no Router Solicitation
\* is emitted until the next link change or start.
C25_DadBeforeUse ==
    [][engine = "slaac" =>
          /\ (interface.linkLocalAddrState # "Preferred"
                 /\ interface'.linkLocalAddrState = "Preferred")
                => /\ probes.linkLocal = settings.dupAddrDetectTransmits
                   /\ ~interface.linkLocalAddrDup
                   /\ slaac'.state = "ROUTER_SOLICIT"
          /\ (interface.globalAddrState # "Preferred"
                 /\ interface'.globalAddrState = "Preferred")
                => /\ probes.global = settings.dupAddrDetectTransmits
                   /\ ~interface.globalAddrDup
                   /\ slaac'.state = "CONFIGURED"
          /\ (slaac.state # "CONFIGURED" /\ slaac'.state = "CONFIGURED")
                => interface'.globalAddrState = "Preferred"
          /\ (RouterSol \cap ev'.sent # {})
                => /\ interface.linkLocalAddrState = "Preferred"
                   /\ ~probes.failed
          /\ (/\ SlaacTick
              /\ slaac.state = "LINK_LOCAL_ADDR_DAD"
              /\ timeCompare(now, slaac.timestamp + slaac.timeout) >= 0
              /\ interface.linkLocalAddrDup)
                => /\ interface'.linkLocalAddrState = "Invalid"
                   /\ slaac'.state = "DAD_FAILURE"
                   /\ probes'.failed]_vars

\* the link-local address has passed detection and a Router Solicitation is
\* sent, or the global address has passed detection
C25_Witness ==
    /\ engine = "slaac"
    /\ probes.linkLocal = settings.dupAddrDetectTransmits
    /\ interface.linkLocalAddrState = "Preferred"
    /\ probes.global = settings.dupAddrDetectTransmits
    /\ interface.globalAddrState = "Preferred"
    /\ slaac.state = "CONFIGURED"

\* the Prefix Information options of a Router Advertisement that SLAAC may
\* adopt, by position
AdoptablePrefixes(message) ==
    {i \in 1..Len(message.prefixInfo) :
        LET pi == message.prefixInfo[i]
        IN  /\ pi.a
            /\ pi.prefixLength = 64
            /\ pi.prefix # IPV6_LINK_LOCAL_ADDR_PREFIX
            /\ pi.validLifetime > 0
            /\ pi.preferredLifetime <= pi.validLifetime}

\* C26: SLAAC acts on a Router Advertisement only in ROUTER-SOLICIT or
\* NO-ROUTER: there it adopts the first Prefix Information option of the
\* message that has Autonomous = 1, prefix length 64, a prefix other than the
\* link-local prefix, valid lifetime > 0 and preferred <= valid, sets the
\* global address to prefix || IID in Tentative state and enters
\* GLOBAL-ADDR-DAD; in every other state a Router Advertisement changes neither
\* the SLAAC context nor the interface configuration.
C26_RouterAdvAdoption ==
    [][engine = "slaac" =>
          /\ slaac.state \in {"ROUTER_SOLICIT", "NO_ROUTER"}
                => \A message \in RouterAdvMessages :
                      AdoptablePrefixes(message) # {}
                         => slaacRouterAdvOk(slaac, message)
          /\ (SlaacRouterAdvCheck \/ SlaacRouterAdvCommit)
                => IF slaac.state \in {"ROUTER_SOLICIT", "NO_ROUTER"}
                   THEN SlaacRouterAdvCommit
                           => LET adoptable == AdoptablePrefixes(spc.message)
                                  first == CHOOSE i \in adoptable :
                                              \A j \in adoptable : i <= j
                                  pi == spc.message.prefixInfo[first]
                              IN  /\ adoptable # {}
                                  /\ interface'.globalAddr =
                                        Ipv6Addr(pi.prefix,
                                                 macAddrToEui64(interface.macAddr))
                                  /\ interface'.globalAddrState = "Tentative"
                                  /\ slaac'.state = "GLOBAL_ADDR_DAD"
                   ELSE UNCHANGED <<slaac, interface>>]_vars

\* a timer of the DHCPv4 or DHCPv6 client has run out
RetxExpired ==
    IF engine = "dhcp"
    THEN timeCompare(now, Add32(dhcp.timestamp, dhcp.timeout)) >= 0
    ELSE timeCompare(now, Add32(dhcpv6.timestamp, dhcpv6.timeout)) >= 0

\* the messages of the given type handed to UDP by the step
RetxSent(type) == {d \in ev'.sent : d.type = type}

(***************************************************************************)
(* C27: a request series that gets no accepted reply is bounded.  In       *)
(* REQUESTING and REBOOTING the transmission counter is zero on entry and  *)
(* grows by one with every Request, it never exceeds                       *)
(* DHCP_CLIENT_REQUEST_MAX_RC, and the tick that finds the timer expired   *)
(* after the last Request returns to INIT without sending; the same holds  *)
(* of DHCPv6 REQUEST with DHCPV6_CLIENT_REQ_MAX_RC = 10.  In SELECTING,    *)
(* and in SOLICIT while no Advertise has been accepted, a tick that finds  *)
(* the timer expired always transmits and stays in the state.              *)
(***************************************************************************)
C27_RequestSeriesBounded ==
    [][/\ engine = "dhcp" =>
          LET series == {DHCP_STATE_REQUESTING, DHCP_STATE_REBOOTING}
          IN  /\ (dhcp'.state \in series /\ dhcp'.state # dhcp.state)
                     => dhcp'.retransmitCount = 0
              /\ (dhcp.state \in series /\ dhcp'.state = dhcp.state)
                     => dhcp'.retransmitCount =
                           dhcp.retransmitCount + Cardinality(RetxSent("REQUEST"))
              /\ dhcp'.state \in series
                     => dhcp'.retransmitCount <= DHCP_CLIENT_REQUEST_MAX_RC
              /\ (/\ RetxTick
                  /\ dhcp.state \in series
                  /\ dhcp.retransmitCount = DHCP_CLIENT_REQUEST_MAX_RC
                  /\ RetxExpired)
                     => dhcp'.state = DHCP_STATE_INIT /\ ev'.sent = {}
              /\ (RetxTick /\ dhcp.state = DHCP_STATE_SELECTING /\ RetxExpired)
                     => /\ dhcp'.state = DHCP_STATE_SELECTING
                        /\ dhcp'.retransmitCount = dhcp.retransmitCount + 1
                        /\ RetxSent("DISCOVER") # {}
       /\ engine = "dhcpv6" =>
              /\ (/\ dhcpv6'.state = DHCPV6_STATE_REQUEST
                  /\ dhcpv6.state # DHCPV6_STATE_REQUEST)
                     => dhcpv6'.retransmitCount = 0
              /\ (/\ dhcpv6.state = DHCPV6_STATE_REQUEST
                  /\ dhcpv6'.state = DHCPV6_STATE_REQUEST)
                     => dhcpv6'.retransmitCount =
                           dhcpv6.retransmitCount + Cardinality(RetxSent("REQUEST"))
              /\ dhcpv6'.state = DHCPV6_STATE_REQUEST
                     => dhcpv6'.retransmitCount <= 10
              /\ (/\ RetxTick6
                  /\ dhcpv6.state = DHCPV6_STATE_REQUEST
                  /\ dhcpv6.retransmitCount = 10
                  /\ RetxExpired)
                     => dhcpv6'.state = DHCPV6_STATE_INIT /\ ev'.sent = {}
              /\ (/\ RetxTick6
                  /\ dhcpv6.state = DHCPV6_STATE_SOLICIT
                  /\ advertised.servers = {}
                  /\ RetxExpired)
                     => /\ dhcpv6'.state = DHCPV6_STATE_SOLICIT
                        /\ dhcpv6'.retransmitCount = dhcpv6.retransmitCount + 1
                        /\ RetxSent("SOLICIT") # {}]_vars

\* the tenth and last Request of a DHCPv6 series has just been sent
C27_Witness ==
    /\ engine = "dhcpv6"
    /\ dhcpv6.state = DHCPV6_STATE_REQUEST
    /\ dhcpv6.retransmitCount = DHCPV6_CLIENT_REQ_MAX_RC
    /\ ev.sent # {}

(***************************************************************************)
(* C28: in a DHCPv4 transmission series (SELECTING, REQUESTING, REBOOTING) *)
(* the interval chosen at a retransmission, the k-th transmission of the   *)
(* series having been made before (k > 0), lies between IRT and            *)
(* MRT + DHCP_CLIENT_RAND_FACTOR, the jitter being the fraction            *)
(* DHCP_CLIENT_RAND_FACTOR / MRT of MRT, and it is not shorter than the    *)
(* interval before it as long as the timeout had not reached MRT; the      *)
(* retransmission is made when the interval before it has run out.         *)
(***************************************************************************)
C28_IntervalBounds ==
    [][(/\ engine = "dhcp"
        /\ dhcp.state \in {DHCP_STATE_SELECTING, DHCP_STATE_REQUESTING,
                           DHCP_STATE_REBOOTING}
        /\ dhcp'.state = dhcp.state
        /\ dhcp.retransmitCount > 0
        /\ ev'.sent # {})
          => LET irt == IF dhcp.state = DHCP_STATE_SELECTING
                        THEN DHCP_CLIENT_DISCOVER_INIT_RT
                        ELSE DHCP_CLIENT_REQUEST_INIT_RT
                 mrt == IF dhcp.state = DHCP_STATE_SELECTING
                        THEN DHCP_CLIENT_DISCOVER_MAX_RT
                        ELSE DHCP_CLIENT_REQUEST_MAX_RT
             IN  /\ dhcp'.retransmitCount = dhcp.retransmitCount + 1
                 /\ irt <= dhcp'.timeout
                 /\ dhcp'.timeout <= mrt + DHCP_CLIENT_RAND_FACTOR
                 /\ dhcp.retransmitTimeout < mrt => dhcp.timeout <= dhcp'.timeout
                 /\ now = dhcp.timestamp + dhcp.timeout
                 /\ dhcp'.timestamp = now]_vars

\* a Discover has been retransmitted with the timeout at its cap and the
\* largest jitter
C28_Witness ==
    /\ engine = "dhcp"
    /\ dhcp.state = DHCP_STATE_SELECTING
    /\ dhcp.retransmitCount > 1
    /\ ev.sent # {}
    /\ dhcp.timeout = DHCP_CLIENT_DISCOVER_MAX_RT + DHCP_CLIENT_RAND_FACTOR

\* floor(num * word / 8) of an unsigned word, computed without overflow from
\* the quotient and the remainder of the word by 8
EighthsOf(word, num) ==
    LET q == UDiv(word, 8)
        r == Sub32(word, Mul32(q, 8))
    IN  Add32(Mul32(q, num), (num * r) \div 8)

(***************************************************************************)
(* C29: when the client accepts an Ack whose Lease Time L is finite and    *)
(* which has no T1 and no T2 option, it records T1 = floor(L / 2) and      *)
(* T2 = floor(7 * L / 8), so that T1 <= T2 <= L; when L is 0xFFFFFFFF it   *)
(* records T1 = T2 = 0xFFFFFFFF.                                           *)
(***************************************************************************)
C29_DefaultTimers ==
    [][(RetxServer /\ ev'.acc.type = "ACK")
          => /\ dhcp'.leaseTime \in RetxLeases
             /\ IF dhcp'.leaseTime # DHCP_INFINITE_TIME
                THEN /\ dhcp'.t1 = UDiv(dhcp'.leaseTime, 2)
                     /\ dhcp'.t2 = EighthsOf(dhcp'.leaseTime, 7)
                     /\ ULeq(dhcp'.t1, dhcp'.t2)
                     /\ ULeq(dhcp'.t2, dhcp'.leaseTime)
                ELSE /\ dhcp'.t1 = DHCP_INFINITE_TIME
                     /\ dhcp'.t2 = DHCP_INFINITE_TIME]_vars

\* the unsigned word w is the number 65536 * hi + x, for any integer x that is
\* small against 2^31
WordIs(w, hi, x) ==
    /\ UDiv(w, 65536) = hi + (x \div 65536)
    /\ w % 65536 = x % 65536

\* the wait of C30 for the limit of `seconds` seconds after the start of the
\* lease, `elapsed` milliseconds of which are over: half of the remaining time
\* 1000 * seconds - elapsed when it exceeds 2 * DHCP_CLIENT_REQUEST_MIN_DELAY,
\* all of it otherwise; the products are formed on the halves of the word
RenewWaitIs(wait, seconds, elapsed) ==
    IF ULess((2 * DHCP_CLIENT_REQUEST_MIN_DELAY + elapsed) \div 1000, seconds)
    THEN WordIs(wait, 500 * UDiv(seconds, 65536),
                500 * (seconds % 65536) - ((elapsed + 1) \div 2))
    ELSE WordIs(wait, 1000 * UDiv(seconds, 65536),
                1000 * (seconds % 65536) - elapsed)

(***************************************************************************)
(* C30: a Request sent in RENEWING (REBINDING) is followed by a wait of    *)
(* half of the time that remains until leaseStart + T2 * 1000              *)
(* (leaseStart + leaseTime * 1000) when more than                          *)
(* 2 * DHCP_CLIENT_REQUEST_MIN_DELAY remains, and of all the remaining     *)
(* time otherwise, so that the next transmission is scheduled no later     *)
(* than that time; the wait starts at the send and the transmission        *)
(* counter grows by one.                                                   *)
(***************************************************************************)
C30_RenewSchedule ==
    [][(/\ engine = "dhcp"
        /\ dhcp.state \in {DHCP_STATE_RENEWING, DHCP_STATE_REBINDING}
        /\ dhcp'.state = dhcp.state
        /\ ev'.sent # {})
          => /\ dhcp'.timestamp = now
             /\ dhcp'.retransmitCount = dhcp.retransmitCount + 1
             /\ RenewWaitIs(dhcp'.timeout,
                            IF dhcp.state = DHCP_STATE_RENEWING
                            THEN dhcp.t2 ELSE dhcp.leaseTime,
                            now - dhcp.leaseStartTime)]_vars

\* the Offer checks of C31 on a message received with transaction identifier
\* xid pending; an option is present when it is there with its proper length
OfferChecks(message, xid) ==
    /\ message.op = DHCP_OPCODE_BOOTREPLY
    /\ message.htype = 1
    /\ message.hlen = 6
    /\ message.xid = xid
    /\ message.yiaddr # 0
    /\ message.chaddr = "mine"
    /\ message.magicCookie
    /\ message.msgType = <<DHCP_MESSAGE_TYPE_OFFER>>
    /\ Len(message.serverId) = 1

C32_AdvertiseTransition ==
    [][(engine = "dhcpv6" /\ dhcpv6.state = DHCPV6_STATE_SOLICIT)
          => /\ ev'.acc.type = "ADVERTISE"
                   => IF \/ ev'.acc.preference = 255
                         \/ dhcpv6.retransmitCount > 1
                      THEN /\ dhcpv6'.state = DHCPV6_STATE_REQUEST
                           /\ dhcpv6'.timestamp = now
                           /\ dhcpv6'.timeout = 0
                      ELSE /\ dhcpv6'.state = DHCPV6_STATE_SOLICIT
                           /\ dhcpv6'.timestamp = dhcpv6.timestamp
                           /\ dhcpv6'.timeout = dhcpv6.timeout
             /\ advertised.servers # {}
                   => \A d \in ev'.sent : d.type # "SOLICIT"
             /\ (/\ dhcpv6'.state = DHCPV6_STATE_REQUEST
                 /\ ev'.acc.type # "ADVERTISE")
                   => /\ advertised.servers # {}
                      /\ timeCompare(now, dhcpv6.timestamp + dhcpv6.timeout) >= 0]_vars

\* onReceive of the DHCPv6 client runs on the given datagram
Dhcpv6Receives(message) ==
    /\ engine = "dhcpv6"
    /\ spc.at = "idle"
    /\ message.len = "ok"
    /\ StackStep("recv",
                 dhcpv6ClientProcessMessage(dhcpv6, interface, message, now,
                                            settings.rapidCommit),
                 FALSE, FALSE)

\* an Advertise that is valid whatever the length of its Server Identifier
ValidButServerId(message) ==
    /\ message.msgType = DHCPV6_MSG_TYPE_ADVERTISE
    /\ message.xid = dhcpv6.transactionId
    /\ message.clientId = <<dhcpv6.clientId>>
    /\ Len(message.serverId) = 1
    /\ message.status

(***************************************************************************)
(* C33: in SOLICIT an otherwise valid Advertise is accepted when the       *)
(* length of its Server Identifier is between 1 and DHCPV6_MAX_DUID_SIZE   *)
(* inclusive and rejected otherwise, and the length of the server DUID of  *)
(* the context never exceeds DHCPV6_MAX_DUID_SIZE.                         *)
(***************************************************************************)
C33_ServerIdLength ==
    [][/\ (engine = "dhcpv6" /\ dhcpv6.state = DHCPV6_STATE_SOLICIT
                             /\ spc.at = "idle")
          => \A message \in Dhcpv6RxMessages :
                (ValidButServerId(message) /\ Dhcpv6Receives(message))
                   => (ev'.acc.type = "ADVERTISE"
                         <=> /\ message.serverId[1].length >= 1
                             /\ message.serverId[1].length <= DHCPV6_MAX_DUID_SIZE)
       /\ dhcpv6'.serverId.length <= DHCPV6_MAX_DUID_SIZE]_vars

(***************************************************************************)
(* C34: whenever the DHCPv6 client is in BOUND with finite timers, the     *)
(* recorded values satisfy T1 <= T2 <= valid lifetime and preferred        *)
(* lifetime <= valid lifetime, also when T1 or T2 was derived by the       *)
(* client.                                                                 *)
(***************************************************************************)
C34_Dhcpv6TimersOrdered ==
    (/\ engine = "dhcpv6"
     /\ dhcpv6.state = DHCPV6_STATE_BOUND
     /\ DHCPV6_INFINITE_TIME \notin {dhcpv6.t1, dhcpv6.t2, dhcpv6.validLifetime})
       => /\ dhcpv6.t1 <= dhcpv6.t2
          /\ dhcpv6.t2 <= dhcpv6.validLifetime
          /\ dhcpv6.preferredLifetime <= dhcpv6.validLifetime

\* IRT and MRT of the exchange made in a state of the DHCPv6 client
Dhcpv6Irt(state) ==
    CASE state = DHCPV6_STATE_SOLICIT -> DHCPV6_CLIENT_SOL_TIMEOUT
      [] state = DHCPV6_STATE_REQUEST -> DHCPV6_CLIENT_REQ_TIMEOUT
      [] state = DHCPV6_STATE_CONFIRM -> DHCPV6_CLIENT_CNF_TIMEOUT
      [] state = DHCPV6_STATE_RENEW -> DHCPV6_CLIENT_REN_TIMEOUT
      [] state = DHCPV6_STATE_REBIND -> DHCPV6_CLIENT_REB_TIMEOUT

Dhcpv6Mrt(state) ==
    CASE state = DHCPV6_STATE_SOLICIT -> DHCPV6_CLIENT_SOL_MAX_RT
      [] state = DHCPV6_STATE_REQUEST -> DHCPV6_CLIENT_REQ_MAX_RT
      [] state = DHCPV6_STATE_CONFIRM -> DHCPV6_CLIENT_CNF_MAX_RT
      [] state = DHCPV6_STATE_RENEW -> DHCPV6_CLIENT_REN_MAX_RT
      [] state = DHCPV6_STATE_REBIND -> DHCPV6_CLIENT_REB_MAX_RT

Dhcpv6Exchanges ==
    {DHCPV6_STATE_SOLICIT, DHCPV6_STATE_REQUEST, DHCPV6_STATE_CONFIRM,
     DHCPV6_STATE_RENEW, DHCPV6_STATE_REBIND}

(***************************************************************************)
(* C35: in every DHCPv6 exchange the timeout set with the first message    *)
(* lies in [0.9 * IRT, 1.1 * IRT], the timeout set with a retransmission   *)
(* is min(2 * RTprev, MRT) plus or minus at most a tenth of that value,    *)
(* and no timeout of an exchange exceeds 1.1 * MRT.                        *)
(***************************************************************************)
C35_Dhcpv6Timeouts ==
    [][(engine = "dhcpv6" /\ dhcpv6'.state \in Dhcpv6Exchanges)
          => LET irt == Dhcpv6Irt(dhcpv6'.state)
                 mrt == Dhcpv6Mrt(dhcpv6'.state)
                 base == Min(2 * dhcpv6.timeout, mrt)
             IN  /\ 10 * dhcpv6'.timeout <= 11 * mrt
                 /\ (dhcpv6'.retransmitCount = dhcpv6.retransmitCount + 1)
                       => /\ dhcpv6'.state = dhcpv6.state
                          /\ dhcpv6'.timestamp = now
                          /\ IF dhcpv6.retransmitCount = 0
                             THEN /\ 9 * irt <= 10 * dhcpv6'.timeout
                                  /\ 10 * dhcpv6'.timeout <= 11 * irt
                             ELSE /\ 9 * base <= 10 * dhcpv6'.timeout
                                  /\ 10 * dhcpv6'.timeout <= 11 * base]_vars

\* a Renew has been retransmitted with the largest jitter both times
C35_Witness ==
    /\ engine = "dhcpv6"
    /\ dhcpv6.state = DHCPV6_STATE_RENEW
    /\ dhcpv6.retransmitCount = 2
    /\ ev.sent # {}
    /\ dhcpv6.timeout = 24200

\* the messages of the exchanges of the DHCPv6 client
Dhcpv6ExchangeTypes == {"SOLICIT", "REQUEST", "CONFIRM", "RENEW", "REBIND", "DECLINE"}

(***************************************************************************)
(* C36: the Elapsed Time of a DHCPv6 message is 0 in the first message of  *)
(* an exchange and, in a retransmission, the hundredths of a second since  *)
(* the first message of that exchange was sent, at most 0xFFFF.            *)
(***************************************************************************)
C36_ElapsedTime ==
    [][engine = "dhcpv6"
          => \A d \in ev'.sent :
                d.type \in Dhcpv6ExchangeTypes
                   => d.elapsed = IF firstSent = <<>> THEN 0
                                  ELSE Min((now - firstSent[1]) \div 10, 65535)]_vars

\* the IA_NA options of a message that pass the checks of the parser
ValidIaNas(message) ==
    {k \in 1..Len(message.iaNa) :
        ~dhcpv6ParseIaNaOption(dhcpv6, interface, message.iaNa[k]).error}

(***************************************************************************)
(* C37: a Reply that is valid but for some of its IA_NA options and has at *)
(* least one valid IA_NA option is accepted, and the first valid IA_NA     *)
(* option supplies the address, wherever the IA_NA options stand among the *)
(* other options of the message.                                           *)
(***************************************************************************)
C37_FirstValidIaNa ==
    [][(engine = "dhcpv6" /\ dhcpv6.state = DHCPV6_STATE_REQUEST /\ spc.at = "idle")
          => \A message \in RetxReplies :
                (Dhcpv6Receives(message) /\ ValidIaNas(message) # {})
                   => LET first == CHOOSE k \in ValidIaNas(message) :
                                      \A n \in ValidIaNas(message) : k <= n
                          address == message.iaNa[first].iaAddr[1].address
                      IN  /\ ev'.acc.type = "REPLY"
                          /\ dhcpv6'.state = DHCPV6_STATE_BOUND
                          /\ dhcpv6'.clientAddr = address
                          /\ interface'.globalAddr = address]_vars

(***************************************************************************)
(* C38: the DHCPv4 client accepts an Offer only in SELECTING and an Ack or *)
(* a Nak only in REQUESTING, REBOOTING, RENEWING or REBINDING, in both     *)
(* cases only after it has transmitted in that state (retransmitCount >    *)
(* 0); BOUND is never entered from REQUESTING without a Request sent.      *)
(***************************************************************************)
C38_ReplyAfterRequest ==
    [][engine = "dhcp"
          => /\ ev'.acc.type = "OFFER"
                  => /\ dhcp.state = DHCP_STATE_SELECTING
                     /\ dhcp.retransmitCount > 0
             /\ ev'.acc.type \in {"ACK", "NAK"}
                  => /\ dhcp.state \in DhcpAckStates
                     /\ dhcp.retransmitCount > 0
             /\ (dhcp.state = DHCP_STATE_REQUESTING
                 /\ dhcp'.state = DHCP_STATE_BOUND)
                  => dhcp.retransmitCount > 0]_vars

(***************************************************************************)
(* C39: the state of the DHCPv4 client changes only from INIT to           *)
(* SELECTING, from SELECTING to REQUESTING with an Offer, from INIT-REBOOT *)
(* to REBOOTING, from REQUESTING, REBOOTING, RENEWING or REBINDING to      *)
(* BOUND with an Ack, from BOUND to RENEWING, from RENEWING to REBINDING,  *)
(* from REQUESTING, REBOOTING, RENEWING or REBINDING to INIT with a Nak or *)
(* in a tick, from any state to INIT in start or stop and to INIT or       *)
(* INIT-REBOOT in the link-change handler.                                 *)
(***************************************************************************)
C39_DhcpEdges ==
    [][(engine = "dhcp" /\ dhcp'.state # dhcp.state)
          => LET from == dhcp.state
                 to == dhcp'.state
             IN  \/ from = DHCP_STATE_INIT /\ to = DHCP_STATE_SELECTING
                 \/ /\ from = DHCP_STATE_SELECTING /\ to = DHCP_STATE_REQUESTING
                    /\ ev'.acc.type = "OFFER"
                 \/ from = DHCP_STATE_INIT_REBOOT /\ to = DHCP_STATE_REBOOTING
                 \/ /\ from \in DhcpAckStates /\ to = DHCP_STATE_BOUND
                    /\ ev'.acc.type = "ACK"
                 \/ from = DHCP_STATE_BOUND /\ to = DHCP_STATE_RENEWING
                 \/ from = DHCP_STATE_RENEWING /\ to = DHCP_STATE_REBINDING
                 \/ /\ from \in DhcpAckStates /\ to = DHCP_STATE_INIT
                    /\ ev'.acc.type = "NAK" \/ ev'.tickChanged
                 \/ to = DHCP_STATE_INIT /\ (DhcpStart \/ DhcpStop)
                 \/ /\ to \in {DHCP_STATE_INIT, DHCP_STATE_INIT_REBOOT}
                    /\ DhcpLinkChange]_vars

\* the client has just gone from RENEWING to REBINDING
C39_Witness ==
    /\ engine = "dhcp"
    /\ dhcp.state = DHCP_STATE_REBINDING
    /\ dhcp.retransmitCount = 0
    /\ ev.tickChanged

(***************************************************************************)
(* C40: with SLAAC and the DHCPv6 client on the same interface, SLAAC sets *)
(* the state of the global address to Preferred only while the slot holds  *)
(* the address it formed from the advertised prefix: after the DHCPv6      *)
(* client has committed or invalidated the global address during           *)
(* GLOBAL-ADDR-DAD, SLAAC does not set that address Preferred.             *)
(***************************************************************************)
C40_PreferredIsSlaacAddress ==
    [][(/\ engine = "slaac"
        /\ slaac.state = "GLOBAL_ADDR_DAD"
        /\ interface.globalAddrState # "Preferred"
        /\ interface'.globalAddrState = "Preferred")
          => interface'.globalAddr = Ipv6Addr(interface.prefix,
                                              macAddrToEui64(interface.macAddr))]_vars

\* no operation of the client enters DECLINE: dhcpv6StateDecline is never
\* called and dhcpv6ChangeState is never given DHCPV6_STATE_DECLINE
Dhcpv6NeverDeclines == dhcpv6.state # DHCPV6_STATE_DECLINE

\* the lease of the client has finite timers, and they elapse before the
\* clock stops
LeaseFinite ==
    /\ dhcp.t1 \in 0..(MaxLease + 2)
    /\ dhcp.t2 \in 0..(MaxLease + 2)
    /\ dhcp.leaseTime \in 0..(MaxLease + 2)
    /\ dhcp.leaseStartTime + (MaxLease + 2) * 1000 + ClockStep <= LeaseMaxTime

\* C17: a client in BOUND with finite T1, T2 and lease time that stays
\* running with the link up, is ticked periodically and accepts no further
\* Ack or Nak eventually enters RENEWING, then REBINDING, and at the expiry of
\* the lease sets the interface address Invalid and returns to INIT: the
\* lease ends in INIT with the address Invalid, and the only way there is
\* from BOUND to RENEWING, from RENEWING to REBINDING and from REBINDING to
\* INIT.
C17_LeaseRunsOut ==
    /\ (dhcp.state \in LeaseStates /\ LeaseFinite)
            ~> (dhcp.state = DHCP_STATE_INIT
                  /\ interface.ipv4AddrState = "Invalid")
    /\ [][/\ (dhcp.state = DHCP_STATE_BOUND /\ dhcp'.state # dhcp.state)
               => dhcp'.state = DHCP_STATE_RENEWING
          /\ (dhcp.state = DHCP_STATE_RENEWING /\ dhcp'.state # dhcp.state)
               => dhcp'.state = DHCP_STATE_REBINDING
          /\ (dhcp.state = DHCP_STATE_REBINDING /\ dhcp'.state # dhcp.state)
               => /\ dhcp'.state = DHCP_STATE_INIT
                  /\ interface'.ipv4AddrState = "Invalid"]_vars

\* the tick that found the lease of MaxLease seconds expired has set the
\* address Invalid and the state INIT
C17_Witness ==
    /\ dhcp.state = DHCP_STATE_INIT
    /\ ev.tickChanged
    /\ dhcp.running /\ interface.linkState
    /\ dhcp.leaseTime = MaxLease
    /\ dhcp.t1 = 1 /\ dhcp.t2 = MaxLease - 1
    /\ now - dhcp.leaseStartTime >= MaxLease * 1000
    /\ interface.ipv4AddrState = "Invalid"

\* C18: a running client with the link up that is ticked periodically and
\* gets a valid Offer for every Discover and a valid Ack from the same server
\* for every Request eventually reaches BOUND with the interface address equal
\* to the yiaddr of the Ack, through SELECTING and then REQUESTING.
C18_Acquires ==
    /\ (/\ dhcp.state = DHCP_STATE_INIT
        /\ dhcp.running /\ interface.linkState
        /\ now + DHCP_CLIENT_INIT_DELAY + ClockStep <= LeaseMaxTime)
            ~> (/\ dhcp.state = DHCP_STATE_BOUND
                /\ ev.acc.type = "ACK"
                /\ interface.ipv4AddrState = "Valid"
                /\ interface.ipv4Addr
                       = DhcpMsg(DHCP_MESSAGE_TYPE_ACK, ev.acc.xid,
                                 dhcp.serverIpAddr).yiaddr)
    /\ [][/\ (dhcp'.state = DHCP_STATE_BOUND /\ dhcp.state # DHCP_STATE_BOUND)
               => dhcp.state = DHCP_STATE_REQUESTING
          /\ (dhcp'.state = DHCP_STATE_REQUESTING
                 /\ dhcp.state # DHCP_STATE_REQUESTING)
               => dhcp.state = DHCP_STATE_SELECTING]_vars

\* the Ack of the server has just been accepted in REQUESTING
C18_Witness ==
    /\ dhcp.state = DHCP_STATE_BOUND
    /\ ev.acc.type = "ACK"
    /\ ev.acc.xid = lastSentXid
    /\ dhcp.running /\ interface.linkState
    /\ interface.ipv4AddrState = "Valid"
    /\ interface.ipv4Addr = dhcp.requestedIpAddr
    /\ dhcp.leaseStartTime = now

====
